---- MODULE Spec2Model ----
(***************************************************************************)
(* The program cache of the SVM (program-runtime/src/loaded_programs.rs)   *)
(* and the cooperative loading loop that feeds it into a transaction batch *)
(* (svm/src/transaction_processor.rs).                                     *)
(*                                                                         *)
(* An Arc<LoadedProgram> is modelled by the value of the LoadedProgram; a  *)
(* ProgramRuntimeEnvironment (an Arc compared with Arc::ptr_eq) by the     *)
(* name of the allocation.  The statistics that no property reads (hits,   *)
(* misses, insertions, reloads, evictions, one_hit_wonders, empty_entries) *)
(* are left out of Stats.                                                  *)
(***************************************************************************)
EXTENDS Integers, Sequences, FiniteSets, TLC

\* ------------------------------------------------------------------ bounds
MaxSlot == 3
MaxOps == 1
MaxCalls == 4
MaxVersions == 3
MaxPrunes == 2
MaxNotify == 4
CookieBits == 3
StatBits == 3
SlotsPerEpoch == 2

\* ------------------------------------------------------- program constants
MAX_LOADED_ENTRY_COUNT == 256
DELAY_VISIBILITY_SLOT_OFFSET == 1
SHRINK_LOADED_PROGRAMS_TO_PERCENTAGE == 90

\* --------------------------------------------------------------- universes
Slots == 0..MaxSlot
Addrs == {"A", "B"}
Workers == {"w1", "w2"}
MainThread == "main"
NoEnv == "none"
\* Option<T>: None is the empty sequence, Some(x) the sequence of x alone.
None == <<>>
Some(x) == <<x>>

Min(a, b) == IF a <= b THEN a ELSE b
Max(a, b) == IF a >= b THEN a ELSE b
saturating_sub(a, b) == IF a >= b THEN a - b ELSE 0

RECURSIVE Pow2(_)
Pow2(n) == IF n = 0 THEN 1 ELSE 2 * Pow2(n - 1)

\* AtomicU64::fetch_add on a statistic, which wraps around; the statistics are
\* StatBits wide here.
fetch_add(counter, value) == (counter + value) % Pow2(StatBits)

\* ---------------------------------------------------------------- ForkGraph
\* The block store is a collaborator: a tree of slots of which a range is
\* known.  Slot 2 is a fork that dies out: 0 <- 1 <- 2 and 0 <- 1 <- 3 <- 4 ...
Parent(s) == IF s = 3 THEN 1 ELSE s - 1

RECURSIVE Ancestors(_)
Ancestors(s) == IF s = 0 THEN {} ELSE {Parent(s)} \cup Ancestors(Parent(s))

ForkGraphs == {[unknown |-> {}], [unknown |-> {MaxSlot}]}

relationship(fg, a, b) ==
    IF a = b THEN "Equal"
    ELSE IF a \in fg.unknown \/ b \in fg.unknown THEN "Unknown"
    ELSE IF a \in Ancestors(b) THEN "Ancestor"
    ELSE IF b \in Ancestors(a) THEN "Descendant"
    ELSE "Unrelated"

\* ------------------------------------------------------------ LoadedProgram
LoadedProgramType ==
    {"FailedVerification", "Closed", "DelayVisibility", "Unloaded",
     "LegacyV0", "LegacyV1", "Typed", "Builtin"}

\* LoadedProgramType::get_environment: the variants that carry one
CarriesEnvironment(program) ==
    program \in {"LegacyV0", "LegacyV1", "Typed", "FailedVerification", "Unloaded"}

get_environment(entry) ==
    IF CarriesEnvironment(entry.program) THEN entry.env ELSE NoEnv

LoadedProgram(program, env, account_size, deployment_slot, effective_slot) ==
    [program |-> program,
     env |-> IF CarriesEnvironment(program) THEN env ELSE NoEnv,
     account_size |-> account_size,
     deployment_slot |-> deployment_slot,
     effective_slot |-> effective_slot,
     tx_usage_counter |-> 0,
     ix_usage_counter |-> 0,
     latest_access_slot |-> 0]

new_builtin(deployment_slot, account_size) ==
    LoadedProgram("Builtin", NoEnv, account_size, deployment_slot, deployment_slot)

new_tombstone_next(slot, reason, env) ==
    LoadedProgram(reason, env, 0, slot + 1, slot + 1)

new_tombstone(slot, reason, env) ==
    LoadedProgram(reason, env, 0, slot, slot)

is_tombstone(entry) ==
    entry.program \in {"FailedVerification", "Closed", "DelayVisibility"}

to_unloaded_fresh(entry) ==
    IF entry.program \in {"LegacyV0", "LegacyV1", "Typed"}
    THEN Some(LoadedProgram("Unloaded", entry.env, entry.account_size,
                            entry.deployment_slot, entry.effective_slot))
    ELSE None

to_unloaded(entry) ==
    IF entry.program \in {"LegacyV0", "LegacyV1", "Typed"}
    THEN Some([entry EXCEPT !.program = "Unloaded"])
    ELSE None

is_implicit_delay_visibility_tombstone_late(entry, slot) ==
    /\ entry.program # "Builtin"
    /\ saturating_sub(entry.effective_slot, entry.deployment_slot)
           = DELAY_VISIBILITY_SLOT_OFFSET
    /\ slot > entry.deployment_slot
    /\ slot < entry.effective_slot

is_implicit_delay_visibility_tombstone(entry, slot) ==
    /\ entry.program # "Builtin"
    /\ saturating_sub(entry.effective_slot, entry.deployment_slot)
           = DELAY_VISIBILITY_SLOT_OFFSET
    /\ slot >= entry.deployment_slot
    /\ slot < entry.effective_slot

update_access_slot_store(entry, slot) ==
    [entry EXCEPT !.latest_access_slot = slot]

\* latest_access_slot.fetch_max(slot)
update_access_slot(entry, slot) ==
    [entry EXCEPT !.latest_access_slot = Max(@, slot)]

\* impl PartialEq for LoadedProgram
LoadedProgramEq(a, b) ==
    /\ a.effective_slot = b.effective_slot
    /\ a.deployment_slot = b.deployment_slot
    /\ is_tombstone(a) = is_tombstone(b)

\* ------------------------------------------------ ProgramRuntimeEnvironments
\* Default makes one empty loader and uses it for both runtimes.
DefaultEnvironments == [program_runtime_v1 |-> "env0", program_runtime_v2 |-> "env0"]
\* The environments a feature activation brings with the next epoch.
NextEnvironments == [program_runtime_v1 |-> "env1", program_runtime_v2 |-> "env2"]

\* ---------------------------------------------------------- LoadingTaskCookie
CookieModulus == Pow2(CookieBits)
update_stuck(cookie) == cookie

update_saturating(cookie) == Min(cookie + 1, CookieModulus - 1)

\* cookie.wrapping_add(1); the cookie is CookieBits wide here.
update(cookie) == (cookie + 1) % CookieModulus

\* ---------------------------------------------------------------- SecondLevel
NoLock == None
DefaultSecondLevel == [slot_versions |-> <<>>, cooperative_loading_lock |-> NoLock]

NoEntries == [k \in {} |-> DefaultSecondLevel]

\* self.entries.entry(key).or_default()
or_default(entries, key) ==
    IF key \in DOMAIN entries THEN entries
    ELSE [k \in DOMAIN entries \cup {key} |->
            IF k = key THEN DefaultSecondLevel ELSE entries[k]]

Remove(entries, keys) == [k \in DOMAIN entries \ keys |-> entries[k]]

\* ---------------------------------------------------------------- ProgramCache
new(root_slot, root_epoch) ==
    [entries |-> NoEntries,
     latest_root_slot |-> root_slot,
     latest_root_epoch |-> root_epoch,
     environments |-> DefaultEnvironments,
     upcoming_environments |-> None,
     programs_to_recompile |-> <<>>,
     stats |-> [lost_insertions |-> 0, replacements |-> 0,
                prunes_orphan |-> 0, prunes_environment |-> 0]]

get_environments_for_epoch(cache, epoch) ==
    IF epoch # cache.latest_root_epoch /\ cache.upcoming_environments # None
    THEN cache.upcoming_environments[1]
    ELSE cache.environments

get_upcoming_environments_for_epoch(cache, epoch) ==
    IF epoch = cache.latest_root_epoch THEN cache.upcoming_environments ELSE None

KeyLess(a, b) ==
    \/ a.effective_slot < b.effective_slot
    \/ a.effective_slot = b.effective_slot /\ a.deployment_slot < b.deployment_slot

SameKey(a, b) ==
    a.effective_slot = b.effective_slot /\ a.deployment_slot = b.deployment_slot

binary_search_by_end(slot_versions, entry) ==
    [ok |-> FALSE, index |-> Len(slot_versions) + 1]

\* slot_versions.binary_search_by(effective_slot, then deployment_slot): on a
\* sorted list, Ok(i) is the position of the key and Err(i) the number of
\* versions that sort before it.
binary_search_by(slot_versions, entry) ==
    LET found == {i \in 1..Len(slot_versions) : SameKey(slot_versions[i], entry)}
        below == {i \in 1..Len(slot_versions) : KeyLess(slot_versions[i], entry)}
    IN  IF found # {}
        THEN [ok |-> TRUE, index |-> CHOOSE i \in found : TRUE]
        ELSE [ok |-> FALSE, index |-> Cardinality(below) + 1]

\* The addresses of a set as a list, in the order of the map.
SetToSeq(set) == SelectSeq(<<"A", "B">>, LAMBDA key : key \in set)

InsertAt(s, i, e) == SubSeq(s, 1, i - 1) \o <<e>> \o SubSeq(s, i, Len(s))

AllowedTransition_none(existing, entry) == FALSE

\* The pairs (existing, entry) for which assign_program replaces the version.
AllowedTransition(existing, entry) ==
    \/ existing = "Builtin" /\ entry = "Builtin"
    \/ existing \in {"Closed", "Unloaded"} /\ entry \in {"LegacyV0", "LegacyV1", "Typed"}

assign_program_unfolded(cache, key, entry) ==
    LET entries == or_default(cache.entries, key)
        slot_versions == entries[key].slot_versions
        at == binary_search_by(slot_versions, entry)
    IN  IF at.ok
        THEN IF ~AllowedTransition(slot_versions[at.index].program, entry.program)
             THEN [cache |-> [cache EXCEPT !.entries = entries,
                                           !.stats.replacements = fetch_add(@, 1)],
                   result |-> TRUE,
                   entry |-> entry]
             ELSE [cache |-> [cache EXCEPT !.entries =
                                [entries EXCEPT ![key].slot_versions[at.index] = entry]],
                   result |-> FALSE,
                   entry |-> entry]
        ELSE [cache |-> [cache EXCEPT !.entries =
                           [entries EXCEPT ![key].slot_versions =
                               InsertAt(slot_versions, at.index, entry)]],
              result |-> FALSE,
              entry |-> entry]

assign_program_overwrite(cache, key, entry) ==
    LET entries == or_default(cache.entries, key)
        slot_versions == entries[key].slot_versions
        at == binary_search_by(slot_versions, entry)
    IN  IF at.ok
        THEN [cache |-> [cache EXCEPT !.entries =
                           [entries EXCEPT ![key].slot_versions[at.index] = entry]],
              result |-> FALSE,
              entry |-> entry]
        ELSE [cache |-> [cache EXCEPT !.entries =
                           [entries EXCEPT ![key].slot_versions =
                               InsertAt(slot_versions, at.index, entry)]],
              result |-> FALSE,
              entry |-> entry]

\* assign_program: the cache afterwards, the value returned, and the entry as
\* the caller's Arc reads afterwards (a replacement folds the counters in).
assign_program(cache, key, entry) ==
    LET entries == or_default(cache.entries, key)
        slot_versions == entries[key].slot_versions
        at == binary_search_by(slot_versions, entry)
    IN  IF at.ok
        THEN LET existing == slot_versions[at.index]
             IN  IF ~AllowedTransition(existing.program, entry.program)
                 THEN [cache |-> [cache EXCEPT !.entries = entries,
                                               !.stats.replacements = fetch_add(@, 1)],
                       result |-> TRUE,
                       entry |-> entry]
                 ELSE LET folded == [entry EXCEPT
                                       !.tx_usage_counter = @ + existing.tx_usage_counter,
                                       !.ix_usage_counter = @ + existing.ix_usage_counter]
                      IN  [cache |-> [cache EXCEPT !.entries =
                                        [entries EXCEPT ![key].slot_versions[at.index] = folded]],
                           result |-> FALSE,
                           entry |-> folded]
        ELSE [cache |-> [cache EXCEPT !.entries =
                           [entries EXCEPT ![key].slot_versions =
                               InsertAt(slot_versions, at.index, entry)]],
              result |-> FALSE,
              entry |-> entry]

remove_programs_with_no_entries(entries) ==
    Remove(entries, {k \in DOMAIN entries :
                        /\ entries[k].slot_versions = <<>>
                        /\ entries[k].cooperative_loading_lock = NoLock})

prune_by_deployment_slot(cache, slot) ==
    [cache EXCEPT !.entries = remove_programs_with_no_entries(
        [k \in DOMAIN cache.entries |->
            [cache.entries[k] EXCEPT !.slot_versions =
                SelectSeq(@, LAMBDA e : e.deployment_slot # slot)]])]

matches_environment_any(entry, environments) == TRUE

\* ProgramCache::matches_environment: a version without environment matches.
matches_environment(entry, environments) ==
    \/ get_environment(entry) = NoEnv
    \/ get_environment(entry) = environments.program_runtime_v1
    \/ get_environment(entry) = environments.program_runtime_v2

prune_filter_first_only(st, entry, fork_graph, new_root_slot, latest_root_slot, environments, recompilation_phase_ends) ==
    LET relation == relationship(fork_graph, entry.deployment_slot, new_root_slot)
        first ==
            IF entry.deployment_slot >= new_root_slot
            THEN [st EXCEPT !.keep = relation \in {"Equal", "Descendant"}]
            ELSE IF relation = "Ancestor" \/ entry.deployment_slot <= latest_root_slot
            THEN IF ~st.first_ancestor_found
                 THEN [st EXCEPT !.first_ancestor_found = TRUE,
                                 !.first_ancestor_env = get_environment(entry),
                                 !.keep = TRUE]
                 ELSE [st EXCEPT !.prunes_orphan = fetch_add(@, 1), !.keep = FALSE]
            ELSE [st EXCEPT !.prunes_orphan = fetch_add(@, 1), !.keep = FALSE]
        second ==
            IF /\ first.keep
               /\ recompilation_phase_ends
               /\ ~matches_environment(entry, environments)
            THEN [first EXCEPT !.prunes_environment = fetch_add(@, 1), !.keep = FALSE]
            ELSE first
    IN  [second EXCEPT !.slot_versions =
            IF second.keep THEN <<entry>> \o @ ELSE @]

\* The two chained filters of prune, applied to one version while walking
\* slot_versions from the newest to the oldest; st carries the closure state.
prune_filter(st, entry, fork_graph, new_root_slot, latest_root_slot, environments, recompilation_phase_ends) ==
    LET relation == relationship(fork_graph, entry.deployment_slot, new_root_slot)
        entry_env == get_environment(entry)
        first ==
            IF entry.deployment_slot >= new_root_slot
            THEN [st EXCEPT !.keep = relation \in {"Equal", "Descendant"}]
            ELSE IF relation = "Ancestor" \/ entry.deployment_slot <= latest_root_slot
            THEN IF ~st.first_ancestor_found
                 THEN [st EXCEPT !.first_ancestor_found = TRUE,
                                 !.first_ancestor_env = entry_env,
                                 !.keep = TRUE]
                 ELSE IF /\ entry_env # NoEnv
                         /\ st.first_ancestor_env # NoEnv
                         /\ entry_env # st.first_ancestor_env
                 THEN [st EXCEPT !.keep = TRUE]
                 ELSE [st EXCEPT !.prunes_orphan = fetch_add(@, 1), !.keep = FALSE]
            ELSE [st EXCEPT !.prunes_orphan = fetch_add(@, 1), !.keep = FALSE]
        second ==
            IF /\ first.keep
               /\ recompilation_phase_ends
               /\ ~matches_environment(entry, environments)
            THEN [first EXCEPT !.prunes_environment = fetch_add(@, 1), !.keep = FALSE]
            ELSE first
    IN  [second EXCEPT !.slot_versions =
            IF second.keep THEN <<entry>> \o @ ELSE @]

RECURSIVE prune_versions(_, _, _, _, _, _, _, _)
prune_versions(st, slot_versions, i, fork_graph, new_root_slot, latest_root_slot, environments, recompilation_phase_ends) ==
    IF i = 0 THEN st
    ELSE prune_versions(
            prune_filter(st, slot_versions[i], fork_graph, new_root_slot,
                         latest_root_slot, environments, recompilation_phase_ends),
            slot_versions, i - 1, fork_graph, new_root_slot, latest_root_slot,
            environments, recompilation_phase_ends)

RECURSIVE prune_entries(_, _, _, _, _, _)
prune_entries(cache, keys, fork_graph, new_root_slot, latest_root_slot, recompilation_phase_ends) ==
    IF keys = {} THEN cache
    ELSE LET k == CHOOSE x \in keys : TRUE
             st == prune_versions(
                     [slot_versions |-> <<>>, keep |-> FALSE,
                      first_ancestor_found |-> FALSE, first_ancestor_env |-> NoEnv,
                      prunes_orphan |-> cache.stats.prunes_orphan,
                      prunes_environment |-> cache.stats.prunes_environment],
                     cache.entries[k].slot_versions,
                     Len(cache.entries[k].slot_versions),
                     fork_graph, new_root_slot, latest_root_slot,
                     cache.environments, recompilation_phase_ends)
         IN  prune_entries(
                 [cache EXCEPT !.entries[k].slot_versions = st.slot_versions,
                               !.stats.prunes_orphan = st.prunes_orphan,
                               !.stats.prunes_environment = st.prunes_environment],
                 keys \ {k}, fork_graph, new_root_slot, latest_root_slot,
                 recompilation_phase_ends)

prune_swap_always(cache, fork_graph, new_root_slot, new_root_epoch) ==
    IF fork_graph = None THEN cache
    ELSE LET recompilation_phase_ends == cache.upcoming_environments # None
             swapped ==
                 IF recompilation_phase_ends
                 THEN [cache EXCEPT !.latest_root_epoch = new_root_epoch,
                                    !.environments = cache.upcoming_environments[1],
                                    !.upcoming_environments = None,
                                    !.programs_to_recompile = <<>>]
                 ELSE [cache EXCEPT !.latest_root_epoch = new_root_epoch]
             swept == prune_entries(swapped, DOMAIN swapped.entries, fork_graph[1],
                                    new_root_slot, cache.latest_root_slot,
                                    recompilation_phase_ends)
         IN  [swept EXCEPT !.entries = remove_programs_with_no_entries(@),
                           !.latest_root_slot = new_root_slot]

\* prune, with fork_graph the Option the cache holds
prune(cache, fork_graph, new_root_slot, new_root_epoch) ==
    IF fork_graph = None THEN cache
    ELSE LET epoch_changes == cache.latest_root_epoch # new_root_epoch
             recompilation_phase_ends ==
                 epoch_changes /\ cache.upcoming_environments # None
             swapped ==
                 IF recompilation_phase_ends
                 THEN [cache EXCEPT !.latest_root_epoch = new_root_epoch,
                                    !.environments = cache.upcoming_environments[1],
                                    !.upcoming_environments = None,
                                    !.programs_to_recompile = <<>>]
                 ELSE [cache EXCEPT !.latest_root_epoch = new_root_epoch]
             swept == prune_entries(swapped, DOMAIN swapped.entries, fork_graph[1],
                                    new_root_slot, cache.latest_root_slot,
                                    recompilation_phase_ends)
         IN  [swept EXCEPT !.entries = remove_programs_with_no_entries(@),
                           !.latest_root_slot = new_root_slot]

matches_loaded_program_criteria_always(program, criteria) == TRUE

matches_loaded_program_criteria_never(program, criteria) == FALSE

matches_loaded_program_criteria(program, criteria) ==
    CASE criteria.kind = "DeployedOnOrAfterSlot" -> program.deployment_slot >= criteria.slot
      [] criteria.kind = "Tombstone" -> is_tombstone(program)
      [] criteria.kind = "NoCriteria" -> TRUE

NoCriteria == [kind |-> "NoCriteria", slot |-> 0]
Tombstone == [kind |-> "Tombstone", slot |-> 0]
DeployedOnOrAfterSlot(slot) == [kind |-> "DeployedOnOrAfterSlot", slot |-> slot]

\* --------------------------------------------------- LoadedProgramsForTxBatch
NoPrograms == [k \in {} |-> new_tombstone(0, "Closed", NoEnv)]

new_from_cache(slot, epoch, cache) ==
    [entries |-> NoPrograms,
     slot |-> slot,
     environments |-> get_environments_for_epoch(cache, epoch),
     upcoming_environments |-> get_upcoming_environments_for_epoch(cache, epoch),
     latest_root_epoch |-> cache.latest_root_epoch,
     hit_max_limit |-> FALSE]

replenish_nothing(batch, key, entry) == batch

\* self.entries.insert(key, entry)
replenish(batch, key, entry) ==
    [batch EXCEPT !.entries =
        [k \in DOMAIN batch.entries \cup {key} |->
            IF k = key THEN entry ELSE batch.entries[k]]]

find(batch, key) ==
    IF key \notin DOMAIN batch.entries THEN None
    ELSE LET entry == batch.entries[key]
         IN  IF is_implicit_delay_visibility_tombstone(entry, batch.slot)
             THEN Some(new_tombstone(entry.deployment_slot, "DelayVisibility", NoEnv))
             ELSE Some(entry)

\* ---------------------------------------------------------------- extract
visible_on_any_fork(entry, latest_root_slot, fork_graph, slot) == TRUE

\* The condition under which extract looks at a version at all.
visible_on_fork(entry, latest_root_slot, fork_graph, slot) ==
    \/ entry.deployment_slot <= latest_root_slot
    \/ relationship(fork_graph, entry.deployment_slot, slot) \in {"Equal", "Ancestor"}

RECURSIVE search_versions_unloaded_hit(_, _, _, _, _, _)
search_versions_unloaded_hit(slot_versions, i, latest_root_slot, fork_graph, batch, match_criteria) ==
    IF i = 0 THEN [found |-> "miss", index |-> 0]
    ELSE LET entry == slot_versions[i]
         IN  IF visible_on_fork(entry, latest_root_slot, fork_graph, batch.slot)
             THEN IF /\ batch.slot >= entry.effective_slot
                     /\ matches_environment(entry, batch.environments)
                  THEN IF ~matches_loaded_program_criteria(entry, match_criteria)
                       THEN [found |-> "miss", index |-> i]
                       ELSE [found |-> "hit", index |-> i]
                  ELSE IF is_implicit_delay_visibility_tombstone(entry, batch.slot)
                  THEN [found |-> "tombstone", index |-> i]
                  ELSE search_versions_unloaded_hit(slot_versions, i - 1, latest_root_slot,
                                                    fork_graph, batch, match_criteria)
             ELSE search_versions_unloaded_hit(slot_versions, i - 1, latest_root_slot,
                                               fork_graph, batch, match_criteria)

RECURSIVE search_versions_newest_only(_, _, _, _, _, _)
search_versions_newest_only(slot_versions, i, latest_root_slot, fork_graph, batch, match_criteria) ==
    IF i = 0 THEN [found |-> "miss", index |-> 0]
    ELSE LET entry == slot_versions[i]
         IN  IF visible_on_fork(entry, latest_root_slot, fork_graph, batch.slot)
             THEN IF /\ batch.slot >= entry.effective_slot
                     /\ matches_environment(entry, batch.environments)
                  THEN IF ~matches_loaded_program_criteria(entry, match_criteria)
                       THEN [found |-> "miss", index |-> i]
                       ELSE IF entry.program = "Unloaded"
                       THEN [found |-> "miss", index |-> i]
                       ELSE [found |-> "hit", index |-> i]
                  ELSE IF is_implicit_delay_visibility_tombstone(entry, batch.slot)
                  THEN [found |-> "tombstone", index |-> i]
                  ELSE [found |-> "miss", index |-> i]
             ELSE search_versions_newest_only(slot_versions, i - 1, latest_root_slot,
                                              fork_graph, batch, match_criteria)

\* The inner loop of extract over slot_versions.iter().rev(), from position i:
\* "hit" with the position of the version, "tombstone" with the position of the
\* version that is not visible yet, or "miss" (a break, or the list ran out).
RECURSIVE search_versions(_, _, _, _, _, _)
search_versions(slot_versions, i, latest_root_slot, fork_graph, batch, match_criteria) ==
    IF i = 0 THEN [found |-> "miss", index |-> 0]
    ELSE LET entry == slot_versions[i]
         IN  IF visible_on_fork(entry, latest_root_slot, fork_graph, batch.slot)
             THEN IF /\ batch.slot >= entry.effective_slot
                     /\ matches_environment(entry, batch.environments)
                  THEN IF ~matches_loaded_program_criteria(entry, match_criteria)
                       THEN [found |-> "miss", index |-> i]
                       ELSE IF entry.program = "Unloaded"
                       THEN [found |-> "miss", index |-> i]
                       ELSE [found |-> "hit", index |-> i]
                  ELSE IF is_implicit_delay_visibility_tombstone(entry, batch.slot)
                  THEN [found |-> "tombstone", index |-> i]
                  ELSE search_versions(slot_versions, i - 1, latest_root_slot,
                                       fork_graph, batch, match_criteria)
             ELSE search_versions(slot_versions, i - 1, latest_root_slot,
                                  fork_graph, batch, match_criteria)

extract_item_greedy(st, item, fork_graph, thread) ==
    LET key == item.key
        cache == st.cache
        slot == st.batch.slot
        at == IF key \in DOMAIN cache.entries
              THEN search_versions(cache.entries[key].slot_versions,
                                   Len(cache.entries[key].slot_versions),
                                   cache.latest_root_slot, fork_graph,
                                   st.batch, item.criteria)
              ELSE [found |-> "miss", index |-> 0]
    IN  CASE at.found = "hit" ->
               LET used == [update_access_slot(
                               cache.entries[key].slot_versions[at.index], slot)
                            EXCEPT !.tx_usage_counter = @ + item.usage_count]
               IN  [st EXCEPT !.cache.entries[key].slot_versions[at.index] = used,
                              !.batch = replenish(@, key, used)]
          [] at.found = "tombstone" ->
               LET minted == [update_access_slot(
                                 new_tombstone(
                                     cache.entries[key].slot_versions[at.index].deployment_slot,
                                     "DelayVisibility", NoEnv), slot)
                              EXCEPT !.tx_usage_counter = @ + item.usage_count]
               IN  [st EXCEPT !.batch = replenish(@, key, minted)]
          [] at.found = "miss" ->
               LET entries == or_default(cache.entries, key)
               IN  IF entries[key].cooperative_loading_lock = NoLock
                   THEN [st EXCEPT
                           !.cache.entries =
                               [entries EXCEPT ![key].cooperative_loading_lock =
                                   Some([slot |-> slot, thread |-> thread])],
                           !.task = Some([key |-> key, usage_count |-> item.usage_count]),
                           !.search_for = Append(@, item)]
                   ELSE [st EXCEPT !.cache.entries = entries,
                                   !.search_for = Append(@, item)]

\* One call of the closure given to search_for.retain; st carries the cache, the
\* batch, the task selected so far and the items retained.
extract_item(st, item, fork_graph, thread) ==
    LET key == item.key
        cache == st.cache
        slot == st.batch.slot
        at == IF key \in DOMAIN cache.entries
              THEN search_versions(cache.entries[key].slot_versions,
                                   Len(cache.entries[key].slot_versions),
                                   cache.latest_root_slot, fork_graph,
                                   st.batch, item.criteria)
              ELSE [found |-> "miss", index |-> 0]
    IN  CASE at.found = "hit" ->
               LET used == [update_access_slot(
                               cache.entries[key].slot_versions[at.index], slot)
                            EXCEPT !.tx_usage_counter = @ + item.usage_count]
               IN  [st EXCEPT !.cache.entries[key].slot_versions[at.index] = used,
                              !.batch = replenish(@, key, used)]
          [] at.found = "tombstone" ->
               LET minted == [update_access_slot(
                                 new_tombstone(
                                     cache.entries[key].slot_versions[at.index].deployment_slot,
                                     "DelayVisibility", NoEnv), slot)
                              EXCEPT !.tx_usage_counter = @ + item.usage_count]
               IN  [st EXCEPT !.batch = replenish(@, key, minted)]
          [] at.found = "miss" ->
               IF st.task # None
               THEN [st EXCEPT !.search_for = Append(@, item)]
               ELSE LET entries == or_default(cache.entries, key)
                    IN  IF entries[key].cooperative_loading_lock = NoLock
                        THEN [st EXCEPT
                                !.cache.entries =
                                    [entries EXCEPT ![key].cooperative_loading_lock =
                                        Some([slot |-> slot, thread |-> thread])],
                                !.task = Some([key |-> key, usage_count |-> item.usage_count]),
                                !.search_for = Append(@, item)]
                        ELSE [st EXCEPT !.cache.entries = entries,
                                        !.search_for = Append(@, item)]

RECURSIVE extract_retain(_, _, _, _)
extract_retain(st, search_for, fork_graph, thread) ==
    IF search_for = <<>> THEN st
    ELSE extract_retain(extract_item(st, Head(search_for), fork_graph, thread),
                        Tail(search_for), fork_graph, thread)

\* extract that takes the address it returns as the task out of the list.
extract_taking(cache, search_for, batch, fork_graph, thread) ==
    LET retained == extract_retain([cache |-> cache, batch |-> batch, task |-> None,
                                    search_for |-> <<>>],
                                   search_for, fork_graph, thread)
    IN  [retained EXCEPT !.search_for =
            SelectSeq(@, LAMBDA item : \/ retained.task = None
                                       \/ item.key # retained.task[1].key)]

\* extract: [cache, batch, search_for, task] afterwards.  The fork graph must
\* have been set (the code unwraps it).
extract(cache, search_for, batch, fork_graph, thread) ==
    extract_retain([cache |-> cache, batch |-> batch, task |-> None,
                    search_for |-> <<>>],
                   search_for, fork_graph, thread)

finish_cooperative_loading_task_drop_lost(cache, cookie, fork_graph, slot, key, loaded_program) ==
    LET unlocked == [cache EXCEPT !.entries =
                        [or_default(cache.entries, key) EXCEPT
                            ![key].cooperative_loading_lock = NoLock]]
        lost == /\ loaded_program.deployment_slot > cache.latest_root_slot
                /\ relationship(fork_graph, loaded_program.deployment_slot, slot)
                       \notin {"Equal", "Ancestor"}
        assigned == assign_program(unlocked, key, loaded_program)
    IN  IF lost
        THEN [cache |-> [unlocked EXCEPT !.stats.lost_insertions = fetch_add(@, 1)],
              cookie |-> update(cookie), result |-> FALSE]
        ELSE [cache |-> assigned.cache, cookie |-> update(cookie),
              result |-> assigned.result]

\* The publication that leaves the lock where it is.
finish_cooperative_loading_task_keep_lock(cache, cookie, fork_graph, slot, key, loaded_program) ==
    LET unlocked == [cache EXCEPT !.entries = or_default(cache.entries, key)]
        lost == /\ loaded_program.deployment_slot > cache.latest_root_slot
                /\ relationship(fork_graph, loaded_program.deployment_slot, slot)
                       \notin {"Equal", "Ancestor"}
        counted == IF lost THEN [unlocked EXCEPT !.stats.lost_insertions = fetch_add(@, 1)]
                   ELSE unlocked
        assigned == assign_program(counted, key, loaded_program)
    IN  [cache |-> assigned.cache, cookie |-> update(cookie), result |-> assigned.result]

\* finish_cooperative_loading_task: the cache and cookie afterwards, the value
\* returned.
finish_cooperative_loading_task(cache, cookie, fork_graph, slot, key, loaded_program) ==
    LET unlocked == [cache EXCEPT !.entries =
                        [or_default(cache.entries, key) EXCEPT
                            ![key].cooperative_loading_lock = NoLock]]
        lost == /\ loaded_program.deployment_slot > cache.latest_root_slot
                /\ relationship(fork_graph, loaded_program.deployment_slot, slot)
                       \notin {"Equal", "Ancestor"}
        counted == IF lost THEN [unlocked EXCEPT !.stats.lost_insertions = fetch_add(@, 1)]
                   ELSE unlocked
        assigned == assign_program(counted, key, loaded_program)
    IN  [cache |-> assigned.cache, cookie |-> update(cookie), result |-> assigned.result]

\* remove_programs
remove_programs(cache, keys) == [cache EXCEPT !.entries = Remove(@, keys)]

\* ---------------------------------------------------------------- eviction
apply_to_all(shrink_to, value) == value

\* percentage::PercentageInteger::apply_to
apply_to(shrink_to, value) == (value * shrink_to) \div 100

\* get_flattened_entries(true, true), as the set of (address, position) pairs
get_flattened_entries(cache, include_program_runtime_v1, include_program_runtime_v2) ==
    {cand \in UNION {{[key |-> k, index |-> i] :
                        i \in 1..Len(cache.entries[k].slot_versions)} :
                     k \in DOMAIN cache.entries} :
        LET program == cache.entries[cand.key].slot_versions[cand.index].program
        IN  \/ program \in {"LegacyV0", "LegacyV1"} /\ include_program_runtime_v1
            \/ program = "Typed" /\ include_program_runtime_v2}

\* Shifting a u64 right; the model's counters stay below 2^31.
ShiftRight(value, by) == IF by >= 31 THEN 0 ELSE value \div Pow2(by)

\* The shift of a release build without the min: the amount is taken modulo 64.
decayed_usage_counter_wrapping_shr(entry, now) ==
    ShiftRight(entry.tx_usage_counter,
               saturating_sub(now, entry.latest_access_slot) % 64)

decayed_usage_counter(entry, now) ==
    LET decaying_for == Min(63, saturating_sub(now, entry.latest_access_slot))
    IN  ShiftRight(entry.tx_usage_counter, decaying_for)

\* unload_program_entry for a candidate of get_flattened_entries: the version
\* found by PartialEq is the one at the candidate's position.
unload_program_entry(cache, cand) ==
    LET candidate == cache.entries[cand.key].slot_versions[cand.index]
        unloaded == to_unloaded(candidate)
    IN  IF unloaded # None
        THEN [cache EXCEPT !.entries[cand.key].slot_versions[cand.index] = unloaded[1]]
        ELSE cache

\* The caches that the rounds of evict_using_2s_random_selection can leave:
\* every round draws two candidates (possibly the same one) and unloads the
\* first if its decayed counter is strictly lower, the second otherwise.
RECURSIVE evict_rounds(_, _, _, _, _)
evict_rounds(cache, original, candidates, num_to_unload, now) ==
    IF num_to_unload = 0 THEN {cache}
    ELSE UNION {
            LET e1 == original.entries[c1.key].slot_versions[c1.index]
                e2 == original.entries[c2.key].slot_versions[c2.index]
                loser == IF decayed_usage_counter(e1, now) < decayed_usage_counter(e2, now)
                         THEN c1 ELSE c2
            IN  evict_rounds(unload_program_entry(cache, loser), original,
                             candidates \ {loser}, num_to_unload - 1, now)
            : c1 \in candidates, c2 \in candidates}

evict_using_2s_random_selection(cache, shrink_to, now) ==
    LET candidates == get_flattened_entries(cache, TRUE, TRUE)
        num_to_unload == saturating_sub(Cardinality(candidates),
                                        apply_to(shrink_to, MAX_LOADED_ENTRY_COUNT))
    IN  evict_rounds(cache, cache, candidates, num_to_unload, now)

\* Vec::swap_remove: the last element takes the place of the removed one.
swap_remove(candidates, index) ==
    [i \in 1..(Len(candidates) - 1) |->
        IF i = index THEN candidates[Len(candidates)] ELSE candidates[i]]

\* The rounds with "lower or equal" in place of "lower".
RECURSIVE evict_sampled_or_equal(_, _, _, _, _)
evict_sampled_or_equal(cache, original, candidates, samples, now) ==
    IF samples = <<>> THEN [cache |-> cache, rounds |-> <<>>]
    ELSE LET index1 == Head(samples)[1]
             index2 == Head(samples)[2]
             usage_counter1 ==
                 decayed_usage_counter(
                     original.entries[candidates[index1].key]
                         .slot_versions[candidates[index1].index], now)
             usage_counter2 ==
                 decayed_usage_counter(
                     original.entries[candidates[index2].key]
                         .slot_versions[candidates[index2].index], now)
             index == IF usage_counter1 <= usage_counter2 THEN index1 ELSE index2
             rest == evict_sampled_or_equal(unload_program_entry(cache, candidates[index]),
                                            original, swap_remove(candidates, index),
                                            Tail(samples), now)
         IN  [cache |-> rest.cache,
              rounds |-> <<[first |-> candidates[index1],
                            second |-> candidates[index2],
                            removed |-> candidates[index]]>> \o rest.rounds]

\* The loop of evict_using_2s_random_selection for given samples of the random
\* number generator, one pair of indexes into the candidate list per round; the
\* result is the cache and, round by round, the two candidates sampled and the
\* one that swap_remove took out of the list.
RECURSIVE evict_sampled(_, _, _, _, _)
evict_sampled(cache, original, candidates, samples, now) ==
    IF samples = <<>> THEN [cache |-> cache, rounds |-> <<>>]
    ELSE LET index1 == Head(samples)[1]
             index2 == Head(samples)[2]
             usage_counter1 ==
                 decayed_usage_counter(
                     original.entries[candidates[index1].key]
                         .slot_versions[candidates[index1].index], now)
             usage_counter2 ==
                 decayed_usage_counter(
                     original.entries[candidates[index2].key]
                         .slot_versions[candidates[index2].index], now)
             index == IF usage_counter1 < usage_counter2 THEN index1 ELSE index2
             rest == evict_sampled(unload_program_entry(cache, candidates[index]),
                                   original, swap_remove(candidates, index),
                                   Tail(samples), now)
         IN  [cache |-> rest.cache,
              rounds |-> <<[first |-> candidates[index1],
                            second |-> candidates[index2],
                            removed |-> candidates[index]]>> \o rest.rounds]

\* The orders in which the iteration of the hash map can visit the addresses.
Orders(keys) ==
    {order \in [1..Cardinality(keys) -> keys] :
        \A i, j \in DOMAIN order : i # j => order[i] # order[j]}

\* get_flattened_entries(true, true) as the vector it collects, for one order
\* of the addresses: the compiled versions of each address by position.
RECURSIVE flattened(_, _)
flattened(cache, order) ==
    IF order = <<>> THEN <<>>
    ELSE SelectSeq([i \in 1..Len(cache.entries[Head(order)].slot_versions) |->
                       [key |-> Head(order), index |-> i]],
                   LAMBDA cand : cand \in get_flattened_entries(cache, TRUE, TRUE))
         \o flattened(cache, Tail(order))

\* What gen_range(0..candidates.len()) can return twice in each of the rounds,
\* as indexes from 1, for a list of the given length.
RECURSIVE Samples(_, _)
Samples(length, num_to_unload) ==
    IF num_to_unload = 0 THEN {<<>>}
    ELSE {<<pair>> \o rest : pair \in (1..length) \X (1..length),
                             rest \in Samples(length - 1, num_to_unload - 1)}

RECURSIVE unload_program_entries(_, _)
unload_program_entries(cache, remove) ==
    IF remove = {} THEN cache
    ELSE LET cand == CHOOSE c \in remove : TRUE
         IN  unload_program_entries(unload_program_entry(cache, cand), remove \ {cand})

\* The caches sort_and_unload can leave: it unloads the num_to_unload first
\* candidates in the order of tx_usage_counter (ties in the order of the map).
sort_and_unload(cache, shrink_to) ==
    LET candidates == get_flattened_entries(cache, TRUE, TRUE)
        num_to_unload == saturating_sub(Cardinality(candidates),
                                        apply_to(shrink_to, MAX_LOADED_ENTRY_COUNT))
        usage(c) == cache.entries[c.key].slot_versions[c.index].tx_usage_counter
    IN  {unload_program_entries(cache, remove) :
            remove \in {r \in SUBSET candidates :
                          /\ Cardinality(r) = num_to_unload
                          /\ \A c \in r, d \in candidates \ r : usage(c) <= usage(d)}}

\* merge: assign_program for every entry of the batch
RECURSIVE merge(_, _, _)
merge(cache, tx_batch_entries, keys) ==
    IF keys = {} THEN cache
    ELSE LET k == CHOOSE x \in keys : TRUE
         IN  merge(assign_program(cache, k, tx_batch_entries[k]).cache,
                   tx_batch_entries, keys \ {k})

\* ------------------------------------------------ TransactionBatchProcessor
get_first_slot_in_epoch(epoch) == epoch * SlotsPerEpoch
slot_epoch(slot) == slot \div SlotsPerEpoch

\* What load_program_accounts can find for a bank at the given slot: the
\* account was last deployed in a slot of the bank's own chain.
AccountSlots(slot) == {slot} \cup Ancestors(slot)

ProgramAccountLoadResult(slot) ==
    {[kind |-> "InvalidAccountData", slot |-> 0, verifies |-> FALSE]}
    \cup {[kind |-> "ProgramOfLoaderV1orV2", slot |-> 0, verifies |-> v] : v \in BOOLEAN}
    \cup {[kind |-> k, slot |-> d, verifies |-> v] :
            k \in {"ProgramOfLoaderV3", "ProgramOfLoaderV4"},
            d \in AccountSlots(slot), v \in BOOLEAN}

load_program_from_bytes_early(program, account_size, deployment_slot, environment) ==
    LoadedProgram(program, environment, account_size, deployment_slot,
                  saturating_sub(deployment_slot, DELAY_VISIBILITY_SLOT_OFFSET))

\* load_program_from_bytes on success
load_program_from_bytes(program, account_size, deployment_slot, environment) ==
    LoadedProgram(program, environment, account_size, deployment_slot,
                  deployment_slot + DELAY_VISIBILITY_SLOT_OFFSET)

\* load_program_with_pubkey for an account that exists: the entry it returns.
load_program_with_pubkey(cache, slot, effective_epoch, account) ==
    LET environments == get_environments_for_epoch(cache, effective_epoch)
        environment == IF account.kind = "ProgramOfLoaderV4"
                       THEN environments.program_runtime_v2
                       ELSE environments.program_runtime_v1
        loaded_program ==
            IF account.kind = "InvalidAccountData"
            THEN new_tombstone(slot, "Closed", NoEnv)
            ELSE IF ~account.verifies
            THEN new_tombstone(account.slot, "FailedVerification", environment)
            ELSE load_program_from_bytes(
                    IF account.kind = "ProgramOfLoaderV4" THEN "Typed" ELSE "LegacyV1",
                    1, account.slot, environment)
        adjusted ==
            IF environments # cache.environments
            THEN [loaded_program EXCEPT !.effective_slot =
                     Max(@, get_first_slot_in_epoch(effective_epoch))]
            ELSE loaded_program
    IN  update_access_slot(adjusted, slot)

\* ------------------------------------------------------------------- state
VARIABLES
    program_cache,            \* the ProgramCache behind Arc<RwLock<..>>
    fork_graph,               \* ProgramCache::fork_graph, an Option
    loading_task_waiter,      \* the cookie of the LoadingTaskWaiter
    processor,                \* per worker: slot, epoch and the arguments of the loop
    pc,                       \* per worker: where it is in replenish_program_cache
    missing_programs,         \* per worker: the search list
    loaded_programs_for_txs,  \* per worker: Option of its batch view
    program_to_store,         \* per worker: Option of (key, program) to publish
    program_to_load,          \* per worker: Option of the task extract returned
    task_cookie,              \* per worker: the cookie read under the write lock
    main,                     \* a caller of the cache outside the loop: batch, search_for, task
    last,                     \* the public operation that returned last
    ops                       \* number of operations made from outside the loop

vars == <<program_cache, fork_graph, loading_task_waiter, processor, pc,
          missing_programs, loaded_programs_for_txs, program_to_store,
          program_to_load, task_cookie, main, last, ops>>

worker_vars == <<processor, pc, missing_programs, loaded_programs_for_txs,
                 program_to_store, program_to_load, task_cookie>>

\* What is remembered of the call that returned last: the operation, its
\* arguments (arg is an Option: the entry of assign_program and merge, the search
\* item or list of extract, the percentage of an eviction, the account a load
\* found, the cookie a notify found, the program of
\* finish_cooperative_loading_task), the value it returned and the operation
\* called before it.
Last(op, key, slot, epoch, arg, result, prev) ==
    [op |-> op, key |-> key, slot |-> slot, epoch |-> epoch, arg |-> arg,
     result |-> result, prev |-> prev]

SearchItem(key, criteria, usage_count) ==
    [key |-> key, criteria |-> criteria, usage_count |-> usage_count]

\* The search lists of a batch: the loop asks with the default criteria of
\* TransactionProcessingCallback::get_program_match_criteria.
BatchSearchLists ==
    {<<SearchItem(a, NoCriteria, 1)>> : a \in Addrs}
    \cup {<<SearchItem(ab[1], NoCriteria, 1), SearchItem(ab[2], NoCriteria, 2)>> :
            ab \in {x \in Addrs \X Addrs : x[1] # x[2]}}

\* The banks that execute batches: the tips of the two forks.
BatchSlots == {2, MaxSlot}

NoMain == [batch |-> new_from_cache(0, 0, new(0, 0)), search_for |-> <<>>, task |-> None]

\* The batches that run side by side: the first worker executes for the bank at
\* the tip and asks for A first, the others for that bank or for the bank on the
\* other fork and ask for A last, so that all batches contend for A; the
\* caller's limit_to_load_programs is the same for all.  missing_programs is
\* program_accounts_map in its iteration order, with the criteria of
\* get_program_match_criteria.
InitWorkers ==
    /\ missing_programs \in {m \in [Workers -> BatchSearchLists] :
                               /\ m["w1"][1].key = "A"
                               /\ \A w \in Workers \ {"w1"} : m[w][Len(m[w])].key = "A"}
    /\ \E limit \in BOOLEAN, slots \in [Workers -> BatchSlots] :
         /\ slots["w1"] = MaxSlot
         /\ processor =
               [w \in Workers |->
                   [slot |-> slots[w], epoch |-> slot_epoch(slots[w]),
                    limit_to_load_programs |-> limit,
                    program_accounts_map |->
                        {missing_programs[w][i].key : i \in DOMAIN missing_programs[w]}]]
    /\ pc = [w \in Workers |-> "lock"]
    /\ loaded_programs_for_txs = [w \in Workers |-> None]
    /\ program_to_store = [w \in Workers |-> None]
    /\ program_to_load = [w \in Workers |-> None]
    /\ task_cookie = [w \in Workers |-> 0]

\* ProgramCache::new(0, 0) followed by set_fork_graph
Init ==
    /\ program_cache = new(0, 0)
    /\ fork_graph \in {Some(fg) : fg \in ForkGraphs}
    /\ loading_task_waiter = 0
    /\ InitWorkers
    /\ main = NoMain
    /\ last = Last("new", "A", 0, 0, None, FALSE, "new")
    /\ ops = 0

\* ---------------------------------------------- replenish_program_cache
\* The block that returns whenever the publication reports an error.
LockedSection_unlimited(w) ==
    /\ pc[w] = "lock"
    /\ fork_graph # None
    /\ \E slot \in {processor[w].slot}, epoch \in {processor[w].epoch} :
       \E batch \in {IF loaded_programs_for_txs[w] = None
                      THEN new_from_cache(slot, epoch, program_cache)
                      ELSE loaded_programs_for_txs[w][1]} :
       \E finished \in {IF program_to_store[w] = None
                         THEN [cache |-> program_cache, cookie |-> loading_task_waiter,
                               result |-> FALSE]
                         ELSE finish_cooperative_loading_task(
                                 program_cache, loading_task_waiter, fork_graph[1], slot,
                                 program_to_store[w][1].key,
                                 program_to_store[w][1].program)} :
         /\ program_to_store' = [program_to_store EXCEPT ![w] = None]
         /\ loading_task_waiter' = finished.cookie
         /\ task_cookie' = [task_cookie EXCEPT ![w] = finished.cookie]
         /\ IF finished.result
            THEN /\ program_cache' = finished.cache
                 /\ loaded_programs_for_txs' =
                      [loaded_programs_for_txs EXCEPT ![w] =
                          Some([new_from_cache(slot, epoch, finished.cache)
                                  EXCEPT !.hit_max_limit = TRUE])]
                 /\ pc' = [pc EXCEPT ![w] = "done"]
                 /\ UNCHANGED <<missing_programs, program_to_load>>
            ELSE \E extracted \in {extract(finished.cache, missing_programs[w], batch,
                                           fork_graph[1], w)} :
                 /\ program_cache' = extracted.cache
                 /\ loaded_programs_for_txs' =
                      [loaded_programs_for_txs EXCEPT ![w] = Some(extracted.batch)]
                 /\ missing_programs' =
                      [missing_programs EXCEPT ![w] = extracted.search_for]
                 /\ program_to_load' = [program_to_load EXCEPT ![w] = extracted.task]
                 /\ pc' = [pc EXCEPT ![w] =
                             IF extracted.task # None THEN "load"
                             ELSE IF extracted.search_for = <<>> THEN "done"
                             ELSE "wait"]
    /\ UNCHANGED <<fork_graph, processor, main, last, ops>>

\* One pass through the block that holds the write lock: new_from_cache on the
\* first round, the publication of the program loaded before, extract, and the
\* reading of the cookie.
LockedSection(w) ==
    /\ pc[w] = "lock"
    /\ fork_graph # None
    /\ \E slot \in {processor[w].slot}, epoch \in {processor[w].epoch} :
       \E batch \in {IF loaded_programs_for_txs[w] = None
                      THEN new_from_cache(slot, epoch, program_cache)
                      ELSE loaded_programs_for_txs[w][1]} :
       \E finished \in {IF program_to_store[w] = None
                         THEN [cache |-> program_cache, cookie |-> loading_task_waiter,
                               result |-> FALSE]
                         ELSE finish_cooperative_loading_task(
                                 program_cache, loading_task_waiter, fork_graph[1], slot,
                                 program_to_store[w][1].key,
                                 program_to_store[w][1].program)} :
         /\ program_to_store' = [program_to_store EXCEPT ![w] = None]
         /\ loading_task_waiter' = finished.cookie
         /\ task_cookie' = [task_cookie EXCEPT ![w] = finished.cookie]
         /\ IF finished.result /\ processor[w].limit_to_load_programs
            THEN /\ program_cache' = finished.cache
                 /\ loaded_programs_for_txs' =
                      [loaded_programs_for_txs EXCEPT ![w] =
                          Some([new_from_cache(slot, epoch, finished.cache)
                                  EXCEPT !.hit_max_limit = TRUE])]
                 /\ pc' = [pc EXCEPT ![w] = "done"]
                 /\ UNCHANGED <<missing_programs, program_to_load>>
            ELSE \E extracted \in {extract(finished.cache, missing_programs[w], batch,
                                           fork_graph[1], w)} :
                 /\ program_cache' = extracted.cache
                 /\ loaded_programs_for_txs' =
                      [loaded_programs_for_txs EXCEPT ![w] = Some(extracted.batch)]
                 /\ missing_programs' =
                      [missing_programs EXCEPT ![w] = extracted.search_for]
                 /\ program_to_load' = [program_to_load EXCEPT ![w] = extracted.task]
                 /\ pc' = [pc EXCEPT ![w] =
                             IF extracted.task # None THEN "load"
                             ELSE IF extracted.search_for = <<>> THEN "done"
                             ELSE "wait"]
    /\ UNCHANGED <<fork_graph, processor, main, last, ops>>

\* load_program_with_pubkey returns Some(program) for the account it read: the
\* store of the usage count and program_to_store = Some((key, program)).
StoreLoaded(w, account) ==
    /\ account \in ProgramAccountLoadResult(processor[w].slot)
    /\ \E task \in {program_to_load[w][1]},
          program \in {load_program_with_pubkey(program_cache, processor[w].slot,
                                                processor[w].epoch, account)} :
         program_to_store' = [program_to_store EXCEPT ![w] =
            Some([key |-> task.key,
                  program |-> [program EXCEPT !.tx_usage_counter = task.usage_count]])]
    /\ pc' = [pc EXCEPT ![w] = "lock"]
    /\ UNCHANGED <<program_cache, fork_graph, loading_task_waiter, processor,
                   missing_programs, loaded_programs_for_txs, program_to_load,
                   task_cookie, main, ops>>

\* load_program_with_pubkey outside the write lock, as one step.
LoadProgram(w, account) ==
    /\ pc[w] = "load"
    /\ StoreLoaded(w, account)
    /\ UNCHANGED last

\* LoadingTaskWaiter::wait(task_cookie) returns: the cookie is another one.
Wait(w) ==
    /\ pc[w] = "wait"
    /\ loading_task_waiter # task_cookie[w]
    /\ pc' = [pc EXCEPT ![w] = "lock"]
    /\ UNCHANGED <<program_cache, fork_graph, loading_task_waiter, processor,
                   missing_programs, loaded_programs_for_txs, program_to_store,
                   program_to_load, task_cookie, main, last, ops>>

\* ------------------------------------- the public operations, called from outside
AssignProgram(key, entry) ==
    /\ program_cache' = assign_program(program_cache, key, entry).cache
    /\ UNCHANGED <<fork_graph, loading_task_waiter, worker_vars, main>>

Prune(new_root_slot, new_root_epoch) ==
    /\ program_cache' = prune(program_cache, fork_graph, new_root_slot, new_root_epoch)
    /\ UNCHANGED <<fork_graph, loading_task_waiter, worker_vars, main>>

PruneByDeploymentSlot(slot) ==
    /\ program_cache' = prune_by_deployment_slot(program_cache, slot)
    /\ UNCHANGED <<fork_graph, loading_task_waiter, worker_vars, main>>

RemovePrograms(keys) ==
    /\ program_cache' = remove_programs(program_cache, keys)
    /\ UNCHANGED <<fork_graph, loading_task_waiter, worker_vars, main>>

EvictThroughView(shrink_to, now) ==
    /\ program_cache' \in evict_using_2s_random_selection(program_cache, shrink_to, now)
    /\ main' = [main EXCEPT !.batch.entries =
                   [k \in DOMAIN @ |-> IF to_unloaded(@[k]) # None
                                       THEN to_unloaded(@[k])[1] ELSE @[k]]]
    /\ UNCHANGED <<fork_graph, loading_task_waiter, worker_vars>>

EvictUsing2sRandomSelection(shrink_to, now) ==
    /\ program_cache' \in evict_using_2s_random_selection(program_cache, shrink_to, now)
    /\ UNCHANGED <<fork_graph, loading_task_waiter, worker_vars, main>>

\* evict_using_2s_random_selection with what the iteration of the hash map and
\* the random number generator gave it; the call is remembered with its rounds.
EvictSampled(shrink_to, now) ==
    \E order \in Orders(DOMAIN program_cache.entries) :
    \E candidates \in {flattened(program_cache, order)} :
    \E num_to_unload \in {saturating_sub(Len(candidates),
                                         apply_to(shrink_to, MAX_LOADED_ENTRY_COUNT))} :
    \E samples \in Samples(Len(candidates), num_to_unload) :
    \E evicted \in {evict_sampled(program_cache, program_cache, candidates, samples, now)} :
       /\ ops < MaxCalls
       /\ ops' = ops + 1
       /\ last' = Last("evict_using_2s_random_selection", "A", now, 0,
                       Some([shrink_to |-> shrink_to, rounds |-> evicted.rounds]),
                       FALSE, last.op)
       /\ program_cache' = evicted.cache
       /\ UNCHANGED <<fork_graph, loading_task_waiter, worker_vars, main>>

SortAndUnload(shrink_to) ==
    /\ program_cache' \in sort_and_unload(program_cache, shrink_to)
    /\ UNCHANGED <<fork_graph, loading_task_waiter, worker_vars, main>>

\* ------------------------------------------------------ the loop among others
\* Programs another bank deploys or closes while the loop runs.
DeployedPrograms ==
    {LoadedProgram("LegacyV1", "env0", 1, 1, 2), new_tombstone(2, "Closed", NoEnv)}

\* The slots that become the root while the loop runs.
RootSlots == {1, MaxSlot}

\* The program accounts the banks of the loop read.
LoopAccounts ==
    {[kind |-> "InvalidAccountData", slot |-> 0, verifies |-> FALSE],
     [kind |-> "ProgramOfLoaderV3", slot |-> 1, verifies |-> TRUE]}

\* An operation called from outside the loop, between two steps of the workers.
Outside ==
    /\ ops < MaxOps
    /\ ops' = ops + 1
    /\ UNCHANGED last

Next ==
    \/ \E w \in Workers :
         /\ program_to_store[w] # None => loading_task_waiter < MaxNotify
         /\ LockedSection(w)
    \/ \E w \in Workers, account \in LoopAccounts : LoadProgram(w, account)
    \/ \E w \in Workers : Wait(w)
    \/ \E key \in Addrs, entry \in DeployedPrograms :
         Outside /\ AssignProgram(key, entry)
    \/ \E slot \in {s \in RootSlots : s >= program_cache.latest_root_slot} :
         Outside /\ Prune(slot, slot_epoch(slot))
    \/ \E key \in Addrs : Outside /\ RemovePrograms({key})

Spec == Init /\ [][Next]_vars

\* ------------------------------------------------------- the loop on its own
\* A step of the thread that runs replenish_program_cache for worker w.
WorkerStep(w) ==
    \/ LockedSection(w)
    \/ \E account \in LoopAccounts : LoadProgram(w, account)
    \/ Wait(w)

NextLoop == \E w \in Workers : WorkerStep(w)

\* The threads of the workers never die and the operating system schedules each
\* of them again and again: a step of a worker that stays possible is taken.
SpecLoop == Init /\ [][NextLoop]_vars /\ \A w \in Workers : WF_vars(WorkerStep(w))

\* ------------------------------------------------- calls one after another
\* A caller of its own uses the cache without the loop: it extracts for a batch,
\* loads what extract hands to it and publishes it.
Extract(slot, search_for) ==
    /\ fork_graph # None
    /\ \E batch \in {new_from_cache(slot, slot_epoch(slot), program_cache)} :
       \E extracted \in {extract(program_cache, search_for, batch, fork_graph[1],
                                 MainThread)} :
         /\ program_cache' = extracted.cache
         /\ main' = [batch |-> extracted.batch, search_for |-> extracted.search_for,
                     task |-> extracted.task]
    /\ UNCHANGED <<fork_graph, loading_task_waiter, worker_vars>>

FinishCooperativeLoadingTask(account) ==
    /\ fork_graph # None
    /\ main.task # None
    /\ account \in ProgramAccountLoadResult(main.batch.slot)
    /\ \E slot \in {main.batch.slot}, task \in {main.task[1]} :
       \E program \in {load_program_with_pubkey(program_cache, slot, slot_epoch(slot),
                                               account)} :
       \E finished \in {finish_cooperative_loading_task(
                            program_cache, loading_task_waiter, fork_graph[1], slot,
                            task.key,
                            [program EXCEPT !.tx_usage_counter = task.usage_count])} :
         /\ program_cache' = finished.cache
         /\ loading_task_waiter' = finished.cookie
         /\ main' = [main EXCEPT !.task = None]
    /\ UNCHANGED <<fork_graph, worker_vars>>

\* The program the caller has loaded for its task from the account it read.
MainLoaded(account) ==
    [load_program_with_pubkey(program_cache, main.batch.slot,
                              slot_epoch(main.batch.slot), account)
        EXCEPT !.tx_usage_counter = main.task[1].usage_count]

\* merge of the programs a transaction of a batch at the given slot modified
Merge(slot, key, entry) ==
    /\ \E tx_batch \in {replenish(new_from_cache(slot, slot_epoch(slot), program_cache),
                                  key, entry)} :
         program_cache' = merge(program_cache, tx_batch.entries, DOMAIN tx_batch.entries)
    /\ UNCHANGED <<fork_graph, loading_task_waiter, worker_vars, main>>

\* The bank stores the environments of the next epoch in the public field
\* upcoming_environments and lists the compiled programs of the cache in the
\* public field programs_to_recompile.
InstallUpcoming ==
    /\ program_cache.upcoming_environments = None
    /\ program_cache.environments # NextEnvironments
    /\ program_cache' = [program_cache EXCEPT
                            !.upcoming_environments = Some(NextEnvironments),
                            !.programs_to_recompile =
                                SetToSeq({c.key : c \in get_flattened_entries(
                                                          program_cache, TRUE, TRUE)})]
    /\ UNCHANGED <<fork_graph, loading_task_waiter, worker_vars, main>>

\* The call is one of the MaxCalls calls made, and is remembered as the last.
Called(op, key, slot, epoch, arg, result) ==
    /\ ops < MaxCalls
    /\ ops' = ops + 1
    /\ last' = Last(op, key, slot, epoch, arg, result, last.op)

\* The versions the callers publish: programs of the current and of the next
\* environments deployed at slots 1 and 2, a program and a builtin of slot 0,
\* and closed programs.
Versions ==
    {LoadedProgram("LegacyV1", env, 1, dep, dep + DELAY_VISIBILITY_SLOT_OFFSET) :
        env \in {"env0", "env1"}, dep \in {1, 2}}
    \cup {new_tombstone(dep, "Closed", NoEnv) : dep \in {2, MaxSlot}}
    \cup {new_builtin(0, 1), LoadedProgram("LegacyV1", "env0", 1, 0, 0)}

Criteria == {NoCriteria, Tombstone}

\* No worker runs the loop.
InitIdle ==
    /\ processor = [w \in Workers |->
                       [slot |-> 0, epoch |-> 0, limit_to_load_programs |-> FALSE,
                        program_accounts_map |-> {}]]
    /\ pc = [w \in Workers |-> "done"]
    /\ missing_programs = [w \in Workers |-> <<>>]
    /\ loaded_programs_for_txs = [w \in Workers |-> None]
    /\ program_to_store = [w \in Workers |-> None]
    /\ program_to_load = [w \in Workers |-> None]
    /\ task_cookie = [w \in Workers |-> 0]

InitCalls ==
    /\ program_cache = new(0, 0)
    /\ fork_graph \in {Some(fg) : fg \in ForkGraphs}
    /\ loading_task_waiter = 0
    /\ InitIdle
    /\ main = NoMain
    /\ last = Last("new", "A", 0, 0, None, FALSE, "new")
    /\ ops = 0

NextCalls ==
    \/ \E entry \in Versions :
         /\ Called("assign_program", "A", 0, 0, Some(entry),
                   assign_program(program_cache, "A", entry).result)
         /\ AssignProgram("A", entry)
    \/ \E entry \in DeployedPrograms :
         /\ Called("merge", "B", MaxSlot, 0, Some(entry), FALSE)
         /\ Merge(MaxSlot, "B", entry)
    \/ \E slot \in 1..MaxSlot, criteria \in Criteria :
         /\ Called("extract", "A", slot, slot_epoch(slot),
                   Some(SearchItem("A", criteria, 1)), FALSE)
         /\ Extract(slot, <<SearchItem("A", criteria, 1)>>)
    \/ \E account \in LoopAccounts :
         /\ FinishCooperativeLoadingTask(account)
         /\ Called("finish_cooperative_loading_task", main.task[1].key,
                   main.batch.slot, 0, Some(MainLoaded(account)),
                   finish_cooperative_loading_task(
                       program_cache, loading_task_waiter, fork_graph[1],
                       main.batch.slot, main.task[1].key, MainLoaded(account)).result)
    \/ /\ Called("upcoming_environments", "A", 0, 0, None, FALSE)
       /\ InstallUpcoming
    \/ \E slot \in {s \in RootSlots : s >= program_cache.latest_root_slot} :
         /\ Called("prune", "A", slot, slot_epoch(slot), None, FALSE)
         /\ Prune(slot, slot_epoch(slot))
    \/ \E slot \in {1, 2} :
         /\ Called("prune_by_deployment_slot", "A", slot, 0, None, FALSE)
         /\ PruneByDeploymentSlot(slot)
    \/ /\ Called("remove_programs", "A", 0, 0, None, FALSE)
       /\ RemovePrograms({"A"})
    \/ /\ Called("evict_using_2s_random_selection", "A", MaxSlot, 0, None, FALSE)
       /\ EvictUsing2sRandomSelection(0, MaxSlot)
    \/ /\ Called("sort_and_unload", "A", 0, 0, None, FALSE)
       /\ SortAndUnload(0)

SpecCalls == InitCalls /\ [][NextCalls]_vars

\* ------------------------------------------------- the load, step by step
\* load_program_with_pubkey begins with program_cache.read(): the guard lives
\* until the function returns, because environments borrows from it.
ReadLock(w) ==
    /\ pc[w] = "load"
    /\ pc' = [pc EXCEPT ![w] = "loading"]
    /\ UNCHANGED <<program_cache, fork_graph, loading_task_waiter, processor,
                   missing_programs, loaded_programs_for_txs, program_to_store,
                   program_to_load, task_cookie, main, last, ops>>

\* The workers that hold a read guard of the RwLock of the cache.
Readers == {w \in Workers : pc[w] = "loading"}

\* program_cache.write() returns only when nobody holds a read guard.
WriteLock == Readers = {}

\* The account is read, verified and compiled, the guard is dropped and
\* Some(program) is returned.
LoadUnderLock(w, account) ==
    /\ pc[w] = "loading"
    /\ StoreLoaded(w, account)
    /\ last' = Last("load_program_with_pubkey", program_to_load[w][1].key,
                    processor[w].slot, processor[w].epoch, Some(account), FALSE, last.op)

\* get_account_shared_data returns None: load_program_accounts and
\* load_program_with_pubkey return None, and the expect of the loop panics.
AccountMissing(w) ==
    /\ pc[w] = "loading"
    /\ pc' = [pc EXCEPT ![w] = "panicked"]
    /\ last' = Last("load_program_with_pubkey", program_to_load[w][1].key,
                    processor[w].slot, processor[w].epoch, None, FALSE, last.op)
    /\ UNCHANGED <<program_cache, fork_graph, loading_task_waiter, processor,
                   missing_programs, loaded_programs_for_txs, program_to_store,
                   program_to_load, task_cookie, main, ops>>

\* The program accounts the banks read: closed, of every loader, passing
\* verification or not; the program of loader v3 was deployed at slot 1, the one
\* of loader v4 in the slot of the batch.
LoadAccounts(slot) ==
    {account \in ProgramAccountLoadResult(slot) :
        \/ account.kind \in {"InvalidAccountData", "ProgramOfLoaderV1orV2"}
        \/ account.kind = "ProgramOfLoaderV3" /\ account.slot = 1
        \/ account.kind = "ProgramOfLoaderV4" /\ account.slot = slot}

\* One batch at the tip asks for A, the other, at the tip of either fork, asks
\* for A as well.
InitLoad ==
    /\ program_cache = new(0, 0)
    /\ fork_graph = Some([unknown |-> {}])
    /\ loading_task_waiter = 0
    /\ missing_programs = [w \in Workers |-> <<SearchItem("A", NoCriteria, 1)>>]
    /\ \E slots \in [Workers -> BatchSlots] :
         /\ slots["w1"] = MaxSlot
         /\ processor =
               [w \in Workers |->
                   [slot |-> slots[w], epoch |-> slot_epoch(slots[w]),
                    limit_to_load_programs |-> FALSE,
                    program_accounts_map |-> {"A"}]]
    /\ pc = [w \in Workers |-> "lock"]
    /\ loaded_programs_for_txs = [w \in Workers |-> None]
    /\ program_to_store = [w \in Workers |-> None]
    /\ program_to_load = [w \in Workers |-> None]
    /\ task_cookie = [w \in Workers |-> 0]
    /\ main = NoMain
    /\ last = Last("new", "A", 0, 0, None, FALSE, "new")
    /\ ops = 0

NextLoad ==
    \/ \E w \in Workers :
         /\ WriteLock
         /\ program_to_store[w] # None => loading_task_waiter < MaxNotify
         /\ LockedSection(w)
    \/ \E w \in Workers : ReadLock(w)
    \/ \E w \in Workers :
         \E account \in LoadAccounts(processor[w].slot) : LoadUnderLock(w, account)
    \/ \E w \in Workers : AccountMissing(w)
    \/ \E w \in Workers : Wait(w)
    \/ /\ WriteLock
       /\ Outside
       /\ InstallUpcoming

SpecLoad == InitLoad /\ [][NextLoad]_vars

\* ------------------------------- load_and_execute_sanitized_transactions
\* The transactions of a batch at most.
MaxTxs == 2

\* LoadedProgramsForTxBatch::merge: every entry of the other view is replenished.
RECURSIVE batch_merge(_, _, _)
batch_merge(batch, other, keys) ==
    IF keys = {} THEN batch
    ELSE LET k == CHOOSE x \in keys : TRUE
         IN  batch_merge(replenish(batch, k, other[k]), other, keys \ {k})

\* TransactionExecutionResult
NotExecuted == [kind |-> "NotExecuted", status |-> "Err", programs_modified_by_tx |-> NoPrograms]
Executed(status, programs_modified_by_tx) ==
    [kind |-> "Executed", status |-> status,
     programs_modified_by_tx |-> programs_modified_by_tx]

\* LoadAndExecuteSanitizedTransactionsOutput
Output(loaded_transactions, execution_results) ==
    [loaded_transactions |-> loaded_transactions, execution_results |-> execution_results]

\* What the transaction at the given position of a batch can leave in
\* programs_modified_by_tx: nothing, or program A deployed in the slot of the
\* batch (the size of the account tells the transactions apart).
ProgramsModifiedBy(slot, index) ==
    {NoPrograms,
     [k \in {"A"} |->
        LoadedProgram("LegacyV1", "env0", index + 1, slot,
                      slot + DELAY_VISIBILITY_SLOT_OFFSET)]}

\* What execute_loaded_transaction or the computation of the compute budget can
\* return for a transaction whose accounts were loaded.
ExecutionResults(slot, index) ==
    {NotExecuted}
    \cup {Executed(status, modified) :
            status \in {"Ok", "Err"}, modified \in ProgramsModifiedBy(slot, index)}

\* replenish_program_cache has returned a view with hit_max_limit: the function
\* returns at once with empty vectors.
HitMaxLimit(w) ==
    /\ pc[w] = "done"
    /\ loaded_programs_for_txs[w][1].hit_max_limit
    /\ pc' = [pc EXCEPT ![w] = "returned"]
    /\ processor' = [processor EXCEPT ![w].output = Some(Output(<<>>, <<>>))]
    /\ UNCHANGED <<program_cache, fork_graph, loading_task_waiter, missing_programs,
                   loaded_programs_for_txs, program_to_store, program_to_load,
                   task_cookie, main, last, ops>>

\* load_accounts: the accounts of every transaction are loaded, or not.
LoadTransactions(w) ==
    /\ pc[w] = "done"
    /\ ~loaded_programs_for_txs[w][1].hit_max_limit
    /\ \E loaded_transactions \in [1..processor[w].sanitized_txs -> {"Ok", "Err"}] :
         processor' = [processor EXCEPT ![w].loaded_transactions = loaded_transactions]
    /\ pc' = [pc EXCEPT ![w] = "execute"]
    /\ UNCHANGED <<program_cache, fork_graph, loading_task_waiter, missing_programs,
                   loaded_programs_for_txs, program_to_store, program_to_load,
                   task_cookie, main, last, ops>>

\* The closure with a merge for every transaction that was executed.
ExecuteLoadedTransaction_merge_always(w, result) ==
    /\ pc[w] = "execute"
    /\ Len(processor[w].execution_results) < processor[w].sanitized_txs
    /\ \E index \in {Len(processor[w].execution_results) + 1} :
         /\ IF processor[w].loaded_transactions[index] = "Err"
            THEN result = NotExecuted
            ELSE result \in ExecutionResults(processor[w].slot, index)
         /\ processor' = [processor EXCEPT ![w].execution_results = Append(@, result)]
         /\ loaded_programs_for_txs' =
              [loaded_programs_for_txs EXCEPT ![w] =
                  IF result.kind = "Executed"
                  THEN Some(batch_merge(@[1], result.programs_modified_by_tx,
                                        DOMAIN result.programs_modified_by_tx))
                  ELSE @]
    /\ UNCHANGED <<program_cache, fork_graph, loading_task_waiter, pc, missing_programs,
                   program_to_store, program_to_load, task_cookie, main, last, ops>>

\* One turn of the closure that maps the loaded transactions to their results:
\* a transaction whose accounts were not loaded is not executed; the others are
\* executed, and the programs modified by one whose status is Ok are merged into
\* the view of the batch.
ExecuteLoadedTransaction(w, result) ==
    /\ pc[w] = "execute"
    /\ Len(processor[w].execution_results) < processor[w].sanitized_txs
    /\ \E index \in {Len(processor[w].execution_results) + 1} :
         /\ IF processor[w].loaded_transactions[index] = "Err"
            THEN result = NotExecuted
            ELSE result \in ExecutionResults(processor[w].slot, index)
         /\ processor' = [processor EXCEPT ![w].execution_results = Append(@, result)]
         /\ loaded_programs_for_txs' =
              [loaded_programs_for_txs EXCEPT ![w] =
                  IF result.kind = "Executed" /\ result.status = "Ok"
                  THEN Some(batch_merge(@[1], result.programs_modified_by_tx,
                                        DOMAIN result.programs_modified_by_tx))
                  ELSE @]
    /\ UNCHANGED <<program_cache, fork_graph, loading_task_waiter, pc, missing_programs,
                   program_to_store, program_to_load, task_cookie, main, last, ops>>

\* All transactions have their result: the cache is shrunk and the function
\* returns what it loaded and the results.
EvictAndReturn(w) ==
    /\ pc[w] = "execute"
    /\ Len(processor[w].execution_results) = processor[w].sanitized_txs
    /\ program_cache' \in evict_using_2s_random_selection(
                              program_cache, SHRINK_LOADED_PROGRAMS_TO_PERCENTAGE,
                              processor[w].slot)
    /\ pc' = [pc EXCEPT ![w] = "returned"]
    /\ processor' = [processor EXCEPT ![w].output =
                        Some(Output(processor[w].loaded_transactions,
                                    processor[w].execution_results))]
    /\ UNCHANGED <<fork_graph, loading_task_waiter, missing_programs,
                   loaded_programs_for_txs, program_to_store, program_to_load,
                   task_cookie, main, last, ops>>

\* Two batches that need A: the first, at the tip, has MaxTxs transactions, the
\* second, at the tip of either fork, has one; the caller limits the loading of
\* programs or not.
InitBatch ==
    /\ program_cache = new(0, 0)
    /\ fork_graph = Some([unknown |-> {}])
    /\ loading_task_waiter = 0
    /\ missing_programs = [w \in Workers |-> <<SearchItem("A", NoCriteria, 1)>>]
    /\ \E limit \in BOOLEAN, slots \in [Workers -> BatchSlots] :
         /\ slots["w1"] = MaxSlot
         /\ processor =
               [w \in Workers |->
                   [slot |-> slots[w], epoch |-> slot_epoch(slots[w]),
                    limit_to_load_programs |-> limit,
                    program_accounts_map |-> {"A"},
                    sanitized_txs |-> IF w = "w1" THEN MaxTxs ELSE 1,
                    loaded_transactions |-> <<>>,
                    execution_results |-> <<>>,
                    output |-> None]]
    /\ pc = [w \in Workers |-> "lock"]
    /\ loaded_programs_for_txs = [w \in Workers |-> None]
    /\ program_to_store = [w \in Workers |-> None]
    /\ program_to_load = [w \in Workers |-> None]
    /\ task_cookie = [w \in Workers |-> 0]
    /\ main = NoMain
    /\ last = Last("new", "A", 0, 0, None, FALSE, "new")
    /\ ops = 0

NextBatch ==
    \/ \E w \in Workers :
         /\ program_to_store[w] # None => loading_task_waiter < MaxNotify
         /\ LockedSection(w)
    \/ \E w \in Workers, account \in LoopAccounts : LoadProgram(w, account)
    \/ \E w \in Workers : Wait(w)
    \/ \E entry \in DeployedPrograms : Outside /\ AssignProgram("A", entry)
    \/ \E w \in Workers : HitMaxLimit(w)
    \/ \E w \in Workers : LoadTransactions(w)
    \/ \E w \in Workers :
         \E result \in ExecutionResults(processor[w].slot,
                                        Len(processor[w].execution_results) + 1) :
            ExecuteLoadedTransaction(w, result)
    \/ \E w \in Workers : EvictAndReturn(w)

SpecBatch == InitBatch /\ [][NextBatch]_vars

\* ------------------------------------------------- a cache without fork graph
\* The operation panics instead of returning: the panic is remembered in place
\* of the return, with the operation that panicked as prev, and nothing is
\* called afterwards.
Panics(op, key, slot, arg) ==
    /\ ops < MaxCalls
    /\ ops' = ops + 1
    /\ last' = Last("panic", key, slot, 0, arg, FALSE, op)
    /\ UNCHANGED <<program_cache, fork_graph, loading_task_waiter, worker_vars, main>>

SetForkGraph(fg) ==
    /\ fork_graph' = Some(fg)
    /\ UNCHANGED <<program_cache, loading_task_waiter, worker_vars, main>>

\* assign_program finds the key of the entry taken by a version that the entry
\* may not replace.
UnexpectedReplacement(key, entry) ==
    LET slot_versions == or_default(program_cache.entries, key)[key].slot_versions
        at == binary_search_by(slot_versions, entry)
    IN  /\ at.ok
        /\ ~AllowedTransition(slot_versions[at.index].program, entry.program)

\* ProgramCache::new(0, 0): set_fork_graph has not been called.
InitPanic ==
    /\ program_cache = new(0, 0)
    /\ fork_graph = None
    /\ loading_task_waiter = 0
    /\ InitIdle
    /\ main = NoMain
    /\ last = Last("new", "A", 0, 0, None, FALSE, "new")
    /\ ops = 0

NextPanic ==
    \/ \E fg \in ForkGraphs :
         /\ last.op # "panic"
         /\ fork_graph = None
         /\ Called("set_fork_graph", "A", 0, 0, None, FALSE)
         /\ SetForkGraph(fg)
    \/ \E entry \in Versions :
         /\ last.op # "panic"
         /\ Called("assign_program", "A", 0, 0, Some(entry),
                   assign_program(program_cache, "A", entry).result)
         /\ AssignProgram("A", entry)
    \/ \E entry \in Versions :
         \* debug_assert!(false, "Unexpected replacement of an entry") in a build
         \* with debug assertions
         /\ last.op # "panic"
         /\ UnexpectedReplacement("A", entry)
         /\ Panics("assign_program", "A", 0, Some(entry))
    \/ \E slot \in 1..MaxSlot :
         /\ last.op # "panic"
         /\ fork_graph # None
         /\ Called("extract", "A", slot, slot_epoch(slot),
                   Some(SearchItem("A", NoCriteria, 1)), FALSE)
         /\ Extract(slot, <<SearchItem("A", NoCriteria, 1)>>)
    \/ \E slot \in 1..MaxSlot :
         \* self.fork_graph.as_ref().unwrap()
         /\ last.op # "panic"
         /\ fork_graph = None
         /\ Panics("extract", "A", slot, Some(SearchItem("A", NoCriteria, 1)))
    \/ \E slot \in {s \in RootSlots : s >= program_cache.latest_root_slot} :
         /\ last.op # "panic"
         /\ Called("prune", "A", slot, slot_epoch(slot), None, FALSE)
         /\ Prune(slot, slot_epoch(slot))
    \/ /\ last.op # "panic"
       /\ Called("sort_and_unload", "A", 0, 0, Some(0), FALSE)
       /\ SortAndUnload(0)

SpecPanic == InitPanic /\ [][NextPanic]_vars

\* ------------------------------------------------------------- rerooting
\* The versions that are in the cache when the root moves: programs of the
\* current and of the next environments, deployed at any slot, effective at
\* once or one slot later, and programs closed at slot 1 or 2.
PruneVersions ==
    {LoadedProgram("LegacyV1", env, 1, dep, eff) :
        env \in {"env0", "env1"}, dep \in Slots, eff \in Slots}
    \cup {new_tombstone(dep, "Closed", NoEnv) : dep \in {1, 2}}

NextPrune ==
    \/ \E entry \in PruneVersions :
         /\ entry.effective_slot \in {entry.deployment_slot,
                                     entry.deployment_slot + DELAY_VISIBILITY_SLOT_OFFSET}
         /\ Len(or_default(program_cache.entries, "A")["A"].slot_versions) < MaxVersions
         /\ ~binary_search_by(or_default(program_cache.entries, "A")["A"].slot_versions,
                              entry).ok
         /\ AssignProgram("A", entry)
         /\ UNCHANGED <<last, ops>>
    \/ /\ InstallUpcoming
       /\ UNCHANGED <<last, ops>>
    \/ \E slot \in {s \in Slots : s >= program_cache.latest_root_slot} :
         /\ ops < MaxPrunes
         /\ ops' = ops + 1
         /\ last' = Last("prune", "A", slot, slot_epoch(slot), None, FALSE, last.op)
         /\ Prune(slot, slot_epoch(slot))

SpecPrune == InitCalls /\ [][NextPrune]_vars

\* --------------------------------------------------------------- eviction
\* The versions that are in the cache when it is shrunk: compiled programs of
\* both runtimes that transactions have used more or less often, a builtin and
\* a closed program.
EvictVersions ==
    {[LoadedProgram(program, "env0", 1, dep, dep + DELAY_VISIBILITY_SLOT_OFFSET)
        EXCEPT !.tx_usage_counter = used, !.ix_usage_counter = used] :
        program \in {"LegacyV1", "Typed"}, dep \in {0, 1}, used \in {1, 3}}
    \cup {new_builtin(0, 1), new_tombstone(1, "Closed", NoEnv)}

\* The percentages the cache is shrunk to: of MAX_LOADED_ENTRY_COUNT = 256
\* entries they leave none, two and five.
ShrinkTo == {0, 1, 2}

NextEvict ==
    \/ \E key \in Addrs, entry \in EvictVersions :
         /\ Called("assign_program", key, 0, 0, Some(entry),
                   assign_program(program_cache, key, entry).result)
         /\ AssignProgram(key, entry)
    \/ /\ Called("extract", "A", 2, slot_epoch(2), Some(SearchItem("A", NoCriteria, 1)),
                 FALSE)
       /\ Extract(2, <<SearchItem("A", NoCriteria, 1)>>)
    \/ \E shrink_to \in ShrinkTo, now \in {0, MaxSlot} :
         /\ Called("evict_using_2s_random_selection", "A", now, 0, Some(shrink_to), FALSE)
         /\ EvictUsing2sRandomSelection(shrink_to, now)
    \/ \E shrink_to \in ShrinkTo :
         /\ Called("sort_and_unload", "A", 0, 0, Some(shrink_to), FALSE)
         /\ SortAndUnload(shrink_to)

SpecEvict == InitCalls /\ [][NextEvict]_vars

\* The rounds of an eviction: programs are published and used, and the cache is
\* shrunk with every order of the candidates and every sample.  The programs
\* are some of EvictVersions: two that were used once, one used three times, and
\* a builtin.
RoundVersions ==
    {entry \in EvictVersions :
        \/ entry.program = "Builtin"
        \/ entry.program = "LegacyV1" /\ entry.tx_usage_counter = 1
        \/ entry.program = "Typed" /\ entry.deployment_slot = 1
              /\ entry.tx_usage_counter = 3}

NextRounds ==
    \/ \E key \in Addrs, entry \in RoundVersions :
         /\ Called("assign_program", key, 0, 0, Some(entry),
                   assign_program(program_cache, key, entry).result)
         /\ AssignProgram(key, entry)
    \/ /\ Called("extract", "A", 2, slot_epoch(2), Some(SearchItem("A", NoCriteria, 1)),
                 FALSE)
       /\ Extract(2, <<SearchItem("A", NoCriteria, 1)>>)
    \/ \E shrink_to \in ShrinkTo, now \in {0, MaxSlot} : EvictSampled(shrink_to, now)

SpecRounds == InitCalls /\ [][NextRounds]_vars

\* ------------------------------------------------------ batches that extract
\* The search items for A: with every criteria, used once or twice.
ItemsForA ==
    {SearchItem("A", NoCriteria, 1), SearchItem("A", NoCriteria, 2),
     SearchItem("A", Tombstone, 1), SearchItem("A", DeployedOnOrAfterSlot(2), 2)}

\* The search lists of the batches: A alone, or A and B in either order.  No
\* version of B is ever published.
ExtractSearchLists ==
    {<<a>> : a \in ItemsForA}
    \cup {<<a, SearchItem("B", NoCriteria, 1)>> : a \in ItemsForA}
    \cup {<<SearchItem("B", NoCriteria, 1), a>> : a \in ItemsForA}

\* The versions the batches find: those the callers publish, and a program of
\* slot 0 whose effective_slot was raised to the first slot of the next epoch.
ExtractVersions ==
    Versions \cup {LoadedProgram("LegacyV1", "env0", 1, 0, get_first_slot_in_epoch(1))}

\* Versions of A are published and unloaded, and batches at any slot extract
\* one after another; arg remembers the search list.
NextExtract ==
    \/ \E entry \in ExtractVersions :
         /\ Called("assign_program", "A", 0, 0, Some(entry),
                   assign_program(program_cache, "A", entry).result)
         /\ AssignProgram("A", entry)
    \/ \E slot \in 1..MaxSlot, search_for \in ExtractSearchLists :
         /\ Called("extract", "A", slot, slot_epoch(slot), Some(search_for), FALSE)
         /\ Extract(slot, search_for)
    \/ /\ Called("sort_and_unload", "A", 0, 0, Some(0), FALSE)
       /\ SortAndUnload(0)

SpecExtract == InitCalls /\ [][NextExtract]_vars

\* ------------------------------------------------------- the waiter on its own
\* LoadingTaskWaiter::notify; arg remembers the cookie it found.
Notify ==
    /\ loading_task_waiter' = update(loading_task_waiter)
    /\ last' = Last("notify", "A", 0, 0, Some(loading_task_waiter), FALSE, last.op)
    /\ UNCHANGED <<program_cache, fork_graph, worker_vars, main, ops>>

\* LoadingTaskWaiter::cookie followed, some time later, by wait(cookie)
CallWait(w) ==
    /\ pc[w] = "lock"
    /\ task_cookie' = [task_cookie EXCEPT ![w] = loading_task_waiter]
    /\ pc' = [pc EXCEPT ![w] = "wait"]
    /\ UNCHANGED <<program_cache, fork_graph, loading_task_waiter, processor,
                   missing_programs, loaded_programs_for_txs, program_to_store,
                   program_to_load, main, last, ops>>

InitWaiter ==
    /\ program_cache = new(0, 0)
    /\ fork_graph = None
    /\ loading_task_waiter = 0
    /\ processor = [w \in Workers |->
                       [slot |-> 0, epoch |-> 0, limit_to_load_programs |-> FALSE,
                        program_accounts_map |-> {}]]
    /\ pc = [w \in Workers |-> "lock"]
    /\ missing_programs = [w \in Workers |-> <<>>]
    /\ loaded_programs_for_txs = [w \in Workers |-> None]
    /\ program_to_store = [w \in Workers |-> None]
    /\ program_to_load = [w \in Workers |-> None]
    /\ task_cookie = [w \in Workers |-> 0]
    /\ main = NoMain
    /\ last = Last("new", "A", 0, 0, None, FALSE, "new")
    /\ ops = 0

NextWaiter ==
    \/ Notify
    \/ \E w \in Workers : CallWait(w)
    \/ \E w \in Workers : Wait(w)

SpecWaiter == InitWaiter /\ [][NextWaiter]_vars

\* ------------------------------------------------------ the decayed counter
\* Slots and counters from the two ends of the range (the largest integer stands
\* for the largest u64) and around the largest shift.
LargeSlots == {0, 1, 2, 62, 63, 64, 65, 1000, Pow2(30) + Pow2(30) - 1}
LargeCounters == {0, 1, 5, Pow2(30) + 1, Pow2(30) + Pow2(30) - 1}

\* The cache holds one program that was used and accessed.
InitDecay ==
    /\ \E used \in LargeCounters, accessed \in LargeSlots :
         program_cache =
            assign_program(new(0, 0), "A",
                           [LoadedProgram("LegacyV1", "env0", 1, 0, 1)
                               EXCEPT !.tx_usage_counter = used,
                                      !.latest_access_slot = accessed]).cache
    /\ fork_graph = None
    /\ loading_task_waiter = 0
    /\ InitIdle
    /\ main = NoMain
    /\ last = Last("new", "A", 0, 0, None, FALSE, "new")
    /\ ops = 0

\* decayed_usage_counter(now) of the program; arg remembers the value returned.
DecayedUsageCounter(now) ==
    /\ last' = Last("decayed_usage_counter", "A", now, 0,
                    Some(decayed_usage_counter(
                            program_cache.entries["A"].slot_versions[1], now)),
                    FALSE, last.op)
    /\ UNCHANGED <<program_cache, fork_graph, loading_task_waiter, worker_vars,
                   main, ops>>

NextDecay == \E now \in LargeSlots : DecayedUsageCounter(now)

SpecDecay == InitDecay /\ [][NextDecay]_vars

\* ====================================================== the loop among others
\* Worker w is between receiving key as its task from extract and the call of
\* finish_cooperative_loading_task for it.
Loading(w, key) ==
    \/ pc[w] = "load" /\ program_to_load[w][1].key = key
    \/ pc[w] = "lock" /\ program_to_store[w] # None /\ program_to_store[w][1].key = key

\* C1: in every interleaving of the loop with the other public operations, for
\* every address at most one worker at a time is between receiving the address
\* as its task and calling finish_cooperative_loading_task for it.
C1_OneLoaderPerAddress ==
    \A key \in Addrs : Cardinality({w \in Workers : Loading(w, key)}) <= 1

\* C2: no lost wakeup.  Every finish_cooperative_loading_task that completes
\* while a worker is at wait(W), W being the cookie it read under the write lock
\* after its extract, leaves the cookie different from W, so that the wait
\* returns.
C2_NoLostWakeup ==
    [][\A w \in Workers :
         (/\ pc[w] = "wait"
          /\ \E v \in Workers : program_to_store[v] # None /\ program_to_store'[v] = None)
         => /\ pc'[w] = "wait"
            /\ loading_task_waiter' # task_cookie'[w]]_vars

\* A worker is at wait(W) and a load has been finished since it read W.
C2_Witness ==
    \E w \in Workers : pc[w] = "wait" /\ loading_task_waiter # task_cookie[w]

\* C4: when the loop returns a view with hit_max_limit = false, every address
\* requested for the batch has an entry in the view.
C4_ViewComplete ==
    \A w \in Workers :
        (pc[w] = "done" /\ ~loaded_programs_for_txs[w][1].hit_max_limit)
        => processor[w].program_accounts_map
               \subseteq DOMAIN loaded_programs_for_txs[w][1].entries

\* The loop has returned a view without hit_max_limit for a batch that asked
\* for two programs, one of which it loaded itself.
C4_Witness ==
    \E w \in Workers :
        /\ pc[w] = "done"
        /\ ~loaded_programs_for_txs[w][1].hit_max_limit
        /\ Cardinality(processor[w].program_accounts_map) = 2
        /\ loading_task_waiter > 0

\* C3: under fair scheduling, with workers that never die and loads that always
\* return an entry, every run of the loop eventually returns.
C3_LoopReturns == <>(\A w \in Workers : pc[w] = "done")

\* =================================================== calls one after another
\* The versions of an address in a cache, none if the address has no SecondLevel.
slot_versions_of(cache, key) ==
    IF key \in DOMAIN cache.entries THEN cache.entries[key].slot_versions ELSE <<>>

\* C5: for a batch view at slot s populated by extract, whenever find(addr)
\* returns an entry e, either e is a DelayVisibility tombstone whose
\* deployment_slot is that of a cached version of addr, or e is a cached version
\* with s >= e.effective_slot whose deployment_slot is at most latest_root_slot
\* or Equal or Ancestor to s in the fork graph.
C5_FindVisible ==
    last.op = "extract" =>
        \A key \in Addrs :
            find(main.batch, key) # None =>
                LET e == find(main.batch, key)[1]
                    s == main.batch.slot
                    versions == slot_versions_of(program_cache, key)
                IN  \/ /\ e.program = "DelayVisibility"
                       /\ \E i \in DOMAIN versions :
                            versions[i].deployment_slot = e.deployment_slot
                    \/ /\ \E i \in DOMAIN versions : versions[i] = e
                       /\ s >= e.effective_slot
                       /\ \/ e.deployment_slot <= program_cache.latest_root_slot
                          \/ relationship(fork_graph[1], e.deployment_slot, s)
                                 \in {"Equal", "Ancestor"}

\* extract has put into the view a version deployed above the root, on the fork
\* of the batch, while the cache holds a version of another fork as well.
C5_Witness ==
    /\ last.op = "extract"
    /\ find(main.batch, "A") # None
    /\ find(main.batch, "A")[1].program = "LegacyV1"
    /\ find(main.batch, "A")[1].deployment_slot > program_cache.latest_root_slot
    /\ \E i \in DOMAIN slot_versions_of(program_cache, "A") :
         relationship(fork_graph[1],
                      slot_versions_of(program_cache, "A")[i].deployment_slot,
                      main.batch.slot) \in {"Unrelated", "Unknown"}

\* The positions of the versions of key that are visible on the fork of a batch
\* at slot s.
VisiblePositions(key, s) ==
    {i \in DOMAIN slot_versions_of(program_cache, key) :
        LET e == slot_versions_of(program_cache, key)[i]
        IN  \/ e.deployment_slot <= program_cache.latest_root_slot
            \/ relationship(fork_graph[1], e.deployment_slot, s) \in {"Equal", "Ancestor"}}

\* extract has just been called for key A, and the newest version of A visible
\* on the fork of the batch is not a builtin and has effective_slot =
\* deployment_slot + 1.
DelayedNewest ==
    /\ last.op = "extract"
    /\ VisiblePositions("A", last.slot) # {}
    /\ LET versions == slot_versions_of(program_cache, "A")
           v == versions[CHOOSE i \in VisiblePositions("A", last.slot) :
                            \A j \in VisiblePositions("A", last.slot) : j <= i]
       IN  /\ v.program # "Builtin"
           /\ v.effective_slot = v.deployment_slot + 1

NewestVisible ==
    LET versions == slot_versions_of(program_cache, "A")
    IN  versions[CHOOSE i \in VisiblePositions("A", last.slot) :
                    \A j \in VisiblePositions("A", last.slot) : j <= i]

\* At batch slot = deployment_slot: no task, and find returns a DelayVisibility
\* tombstone with that deployment_slot.
DelayedAtDeployment ==
    (DelayedNewest /\ last.slot = NewestVisible.deployment_slot) =>
        /\ main.task = None
        /\ find(main.batch, "A") # None
        /\ find(main.batch, "A")[1].program = "DelayVisibility"
        /\ find(main.batch, "A")[1].deployment_slot = NewestVisible.deployment_slot

\* The batch is at the effective_slot of the version, the environment of the
\* version is one of the batch's and the search item has NoCriteria.
EffectiveCase ==
    /\ DelayedNewest
    /\ last.slot = NewestVisible.effective_slot
    /\ \/ NewestVisible.env = NoEnv
       \/ NewestVisible.env = main.batch.environments.program_runtime_v1
       \/ NewestVisible.env = main.batch.environments.program_runtime_v2
    /\ last.arg[1].criteria = NoCriteria

C7_StrictlySorted ==
    \A key \in DOMAIN program_cache.entries :
        LET versions == program_cache.entries[key].slot_versions
        IN  \A i \in 1..(Len(versions) - 1) :
                \/ versions[i].effective_slot < versions[i + 1].effective_slot
                \/ /\ versions[i].effective_slot = versions[i + 1].effective_slot
                   /\ versions[i].deployment_slot < versions[i + 1].deployment_slot

\* An address has three versions, the last of which was put in by an
\* assign_program that followed another operation.
C7_Witness ==
    /\ last.op = "assign_program"
    /\ last.prev # "new"
    /\ Len(slot_versions_of(program_cache, "A")) = 3

\* assign_program(a, e) has returned and extract for a at slot s returns now,
\* with the criteria the loop asks with, s being a slot where e is visible: on
\* the fork of the batch and at or after its effective_slot.
AssignThenExtract ==
    /\ last.op = "assign_program"
    /\ last'.op = "extract"
    /\ last'.key = last.key
    /\ last'.arg[1].criteria = NoCriteria
    /\ last'.slot >= last.arg[1].effective_slot
    /\ \/ last.arg[1].deployment_slot <= program_cache.latest_root_slot
       \/ relationship(fork_graph[1], last.arg[1].deployment_slot, last'.slot)
              \in {"Equal", "Ancestor"}

\* extract has returned e in the view (same payload and slots) and has not taken
\* the cooperative loading path.
ReturnsAssigned ==
    /\ find(main'.batch, last.key) # None
    /\ find(main'.batch, last.key)[1].program = last.arg[1].program
    /\ find(main'.batch, last.key)[1].env = last.arg[1].env
    /\ find(main'.batch, last.key)[1].deployment_slot = last.arg[1].deployment_slot
    /\ find(main'.batch, last.key)[1].effective_slot = last.arg[1].effective_slot
    /\ main'.task = None
    /\ program_cache'.entries[last.key].cooperative_loading_lock
           = program_cache.entries[last.key].cooperative_loading_lock

\* C8 as stated: assign_program(a, e) followed by extract for a, at a batch slot
\* where e is visible, returns e in the batch view and does not take the
\* cooperative loading path.
C8_AssignThenExtract == [][AssignThenExtract => ReturnsAssigned]_vars

\* What else has to hold for e to be returned: assign_program stored e, e is not
\* Unloaded, its environment is one of the batch's, and no newer version of the
\* address is visible on the fork of the batch.
Effective ==
    /\ ~last.result
    /\ last.arg[1].program # "Unloaded"
    /\ \/ last.arg[1].env = NoEnv
       \/ last.arg[1].env
              = get_environments_for_epoch(program_cache, last'.epoch).program_runtime_v1
       \/ last.arg[1].env
              = get_environments_for_epoch(program_cache, last'.epoch).program_runtime_v2
    /\ \A i \in VisiblePositions(last.key, last'.slot) :
         LET v == slot_versions_of(program_cache, last.key)[i]
         IN  \/ v.effective_slot < last.arg[1].effective_slot
             \/ /\ v.effective_slot = last.arg[1].effective_slot
                /\ v.deployment_slot <= last.arg[1].deployment_slot

\* C8 amended: assign_program(a, e) followed by extract for a returns e in the
\* batch view and does not take the cooperative loading path when e was stored
\* (assign_program returned false) and is not Unloaded, is visible on the fork of
\* the batch, the batch slot is at least its effective_slot, its environment is
\* one of the batch's, the search item has NoCriteria and no newer version of a
\* is visible on that fork.
C8_AssignThenExtractEffective ==
    [][(AssignThenExtract /\ Effective) => ReturnsAssigned]_vars

\* extract has returned, right after its assign_program, a program deployed
\* above the root that is not the only version of its address.
C8_Witness ==
    /\ last.op = "extract"
    /\ last.prev = "assign_program"
    /\ main.task = None
    /\ find(main.batch, "A") # None
    /\ find(main.batch, "A")[1].program = "LegacyV1"
    /\ find(main.batch, "A")[1].deployment_slot > program_cache.latest_root_slot
    /\ find(main.batch, "A")[1].tx_usage_counter = 1
    /\ Len(slot_versions_of(program_cache, "A")) >= 2

\* ================================================================ rerooting
\* C9: prune is idempotent.  Calling prune(root, epoch) again right after it
\* returned leaves the same versions per address, the same environments,
\* upcoming_environments, latest_root_slot and latest_root_epoch.
C9_PruneIdempotent ==
    [][(last'.op = "prune" /\ ops' = ops + 1) =>
        LET again == prune(program_cache', fork_graph', last'.slot, last'.epoch)
        IN  /\ \A key \in Addrs :
                 slot_versions_of(again, key) = slot_versions_of(program_cache', key)
            /\ again.environments = program_cache'.environments
            /\ again.upcoming_environments = program_cache'.upcoming_environments
            /\ again.latest_root_slot = program_cache'.latest_root_slot
            /\ again.latest_root_epoch = program_cache'.latest_root_epoch]_vars

\* The versions of key that are deployed above the old root on a slot that is
\* Unrelated or Unknown to the new root, by their positions.
Orphans(key, new_root_slot) ==
    {i \in DOMAIN slot_versions_of(program_cache, key) :
        LET e == slot_versions_of(program_cache, key)[i]
        IN  /\ e.deployment_slot > program_cache.latest_root_slot
            /\ relationship(fork_graph[1], e.deployment_slot, new_root_slot)
                   \in {"Unrelated", "Unknown"}}

\* C10: after prune(root, epoch) with root >= the old latest_root_slot, every
\* retained version is Equal, Ancestor or Descendant to root or deployed at or
\* below the old root; a version deployed above the old root whose deployment
\* slot is Unrelated or Unknown to the new root is removed, and prunes_orphan
\* grows by one for each version removed by this rule.
C10_PruneOrphans ==
    [][(last'.op = "prune" /\ ops' = ops + 1) =>
        /\ \A key \in Addrs :
             \A i \in DOMAIN slot_versions_of(program_cache', key) :
                LET e == slot_versions_of(program_cache', key)[i]
                IN  \/ relationship(fork_graph[1], e.deployment_slot, last'.slot)
                           \in {"Equal", "Ancestor", "Descendant"}
                    \/ e.deployment_slot <= program_cache.latest_root_slot
        /\ \A key \in Addrs :
             \A i \in Orphans(key, last'.slot) :
                \A j \in DOMAIN slot_versions_of(program_cache', key) :
                    slot_versions_of(program_cache', key)[j]
                        # slot_versions_of(program_cache, key)[i]
        /\ (program_cache'.stats.prunes_orphan + Pow2(StatBits)
                - program_cache.stats.prunes_orphan) % Pow2(StatBits)
               >= Cardinality(Orphans("A", last'.slot))
                      + Cardinality(Orphans("B", last'.slot))]_vars

\* ------------------------------------------------------------ epoch rollover
\* The prune that returns now is called with an epoch other than the root epoch
\* while upcoming_environments is installed.
Rollover ==
    /\ last'.op = "prune"
    /\ ops' = ops + 1
    /\ last'.epoch # program_cache.latest_root_epoch
    /\ program_cache.upcoming_environments # None

\* The versions of key that the fork rule of prune alone leaves: the result of
\* the same prune on the same cache without upcoming_environments.
AfterForkRule(key) ==
    slot_versions_of(prune([program_cache EXCEPT !.upcoming_environments = None],
                           fork_graph, last'.slot, last'.epoch), key)

\* C11: epoch rollover.  prune(new_root, new_epoch) with new_epoch #
\* latest_root_epoch while upcoming_environments is installed makes the upcoming
\* environments the current ones, sets upcoming_environments to None, clears
\* programs_to_recompile and removes every version whose environment is neither
\* program_runtime_v1 nor program_runtime_v2 of the new environments, counting
\* each such removal in prunes_environment; afterwards every cached version that
\* carries an environment matches the current environments.
C11_EpochRollover ==
    [][Rollover =>
        /\ program_cache'.environments = program_cache.upcoming_environments[1]
        /\ program_cache'.upcoming_environments = None
        /\ program_cache'.programs_to_recompile = <<>>
        /\ program_cache'.latest_root_epoch = last'.epoch
        /\ \A key \in Addrs :
             /\ slot_versions_of(program_cache', key)
                  = SelectSeq(AfterForkRule(key),
                              LAMBDA e : \/ ~CarriesEnvironment(e.program)
                                         \/ e.env \in {program_cache'.environments.program_runtime_v1,
                                                       program_cache'.environments.program_runtime_v2})
             /\ \A i \in DOMAIN slot_versions_of(program_cache', key) :
                  LET e == slot_versions_of(program_cache', key)[i]
                  IN  CarriesEnvironment(e.program) =>
                        e.env \in {program_cache'.environments.program_runtime_v1,
                                   program_cache'.environments.program_runtime_v2}
        /\ (program_cache'.stats.prunes_environment + Pow2(StatBits)
               - program_cache.stats.prunes_environment) % Pow2(StatBits)
             = Len(AfterForkRule("A")) - Len(slot_versions_of(program_cache', "A"))
               + Len(AfterForkRule("B")) - Len(slot_versions_of(program_cache', "B"))]_vars

\* A rollover has dropped a version of the old environments and kept one of
\* the new ones.
C11_Witness ==
    /\ last.op = "prune"
    /\ program_cache.environments = NextEnvironments
    /\ program_cache.upcoming_environments = None
    /\ program_cache.stats.prunes_environment = 1
    /\ program_cache.programs_to_recompile = <<>>
    /\ \E i \in DOMAIN slot_versions_of(program_cache, "A") :
         slot_versions_of(program_cache, "A")[i].env = "env1"

\* ---------------------------------------------------------------- eviction
\* The number of versions of the cache whose payload is a compiled program.
Compiled(cache) == Cardinality(get_flattened_entries(cache, TRUE, TRUE))

\* ceil(pct% of value)
CeilPercent(pct, value) == (pct * value + 99) \div 100

\* C12: after evict_using_2s_random_selection(pct, now) returns, whatever the
\* cache was before and whatever the random sampling drew, the number of versions
\* whose payload is a compiled user program is at most
\* ceil(pct% of MAX_LOADED_ENTRY_COUNT).
C12_EvictBound ==
    [][(last'.op = "evict_using_2s_random_selection" /\ ops' = ops + 1) =>
        Compiled(program_cache') <= CeilPercent(last'.arg[1], MAX_LOADED_ENTRY_COUNT)]_vars

\* The eviction that returned last had more compiled programs before it than
\* its percentage allows, and has left exactly as many as it allows.
C12_Witness ==
    /\ last.op = "evict_using_2s_random_selection"
    /\ last.arg = Some(1)
    /\ Compiled(program_cache) = 2
    /\ \E key \in DOMAIN program_cache.entries :
         \E i \in DOMAIN program_cache.entries[key].slot_versions :
            program_cache.entries[key].slot_versions[i].program = "Unloaded"

\* The step is an eviction that returns.
Evicts ==
    /\ last'.op \in {"evict_using_2s_random_selection", "sort_and_unload"}
    /\ ops' = ops + 1

\* C13: evict_using_2s_random_selection and sort_and_unload change the cache
\* only by replacing payloads of LegacyV0, LegacyV1 and Typed versions with
\* Unloaded of the same environment: an evicted version stays at its address and
\* position with the same slots, account size, counters and latest_access_slot;
\* builtins, tombstones and unloaded versions are not changed, and no version or
\* address is added or removed.
C13_EvictionFrame ==
    [][Evicts =>
        /\ DOMAIN program_cache'.entries = DOMAIN program_cache.entries
        /\ \A key \in DOMAIN program_cache.entries :
             LET before == program_cache.entries[key]
                 after == program_cache'.entries[key]
             IN  /\ after.cooperative_loading_lock = before.cooperative_loading_lock
                 /\ Len(after.slot_versions) = Len(before.slot_versions)
                 /\ \A i \in DOMAIN before.slot_versions :
                      \/ after.slot_versions[i] = before.slot_versions[i]
                      \/ /\ before.slot_versions[i].program
                               \in {"LegacyV0", "LegacyV1", "Typed"}
                         /\ after.slot_versions[i]
                               = [before.slot_versions[i] EXCEPT !.program = "Unloaded"]
        /\ program_cache'.latest_root_slot = program_cache.latest_root_slot
        /\ program_cache'.latest_root_epoch = program_cache.latest_root_epoch
        /\ program_cache'.environments = program_cache.environments
        /\ program_cache'.upcoming_environments = program_cache.upcoming_environments]_vars

\* sort_and_unload has unloaded a program that transactions had used, next to a
\* builtin or a closed program of the same address.
C13_Witness ==
    /\ last.op = "sort_and_unload"
    /\ \E key \in DOMAIN program_cache.entries :
         LET versions == program_cache.entries[key].slot_versions
         IN  /\ \E i \in DOMAIN versions : /\ versions[i].program = "Unloaded"
                                           /\ versions[i].tx_usage_counter >= 3
             /\ \E i \in DOMAIN versions : versions[i].program \in {"Builtin", "Closed"}

\* ------------------------------------------------------ the load, step by step
\* Worker w is inside load_program_with_pubkey: it reads the accounts of the
\* program it was assigned, verifies and compiles it.
IsLoading(w) == pc[w] = "loading"

\* C14: a worker never holds the lock of the shared cache, neither for writing
\* nor for reading, while it loads, verifies or compiles a program.
C14_NoLockWhileLoading == \A w \in Workers : IsLoading(w) => w \notin Readers

\* Worker w returns now from the load of an account that does not exist or is
\* closed.
LoadsAbsent(w) ==
    /\ pc[w] = "loading"
    /\ pc'[w] # "loading"
    /\ \/ last'.arg = None
       \/ last'.arg[1].kind = "InvalidAccountData"

\* C18: when the worker assigned to load an address finds that the program
\* account does not exist or is closed, it goes on to publish a Closed tombstone
\* for that address through finish_cooperative_loading_task.
C18_ClosedTombstone ==
    [][\A w \in Workers :
          LoadsAbsent(w) =>
             /\ pc'[w] = "lock"
             /\ program_to_store'[w] # None
             /\ program_to_store'[w][1].key = program_to_load[w][1].key
             /\ program_to_store'[w][1].program.program = "Closed"]_vars

\* ------------------------------------------------------------ the batch view
\* The operation that returns now changes the global cache and is none of the
\* batch: an eviction, prune, prune_by_deployment_slot, remove_programs or
\* assign_program.
MutatesCache ==
    /\ ops' = ops + 1
    /\ last'.op \in {"evict_using_2s_random_selection", "sort_and_unload", "prune",
                     "prune_by_deployment_slot", "remove_programs", "assign_program"}

C16_NeverPanics == last.op # "panic"

\* ------------------------------------------------------------ assign_program
\* assign_program(A, e) returns now.
Assigns ==
    /\ last'.op = "assign_program"
    /\ ops' = ops + 1

\* The positions of the versions of A that had the key (effective_slot,
\* deployment_slot) of e when assign_program was called.
Occupied ==
    {i \in DOMAIN slot_versions_of(program_cache, "A") :
        SameKey(slot_versions_of(program_cache, "A")[i], last'.arg[1])}

\* C17 as stated: assign_program(address, entry) returns true if a version with
\* the same (effective_slot, deployment_slot) key was already present for the
\* address, and false if the key was vacant and the entry was inserted.
C17_AssignReturnsOccupied ==
    [][Assigns => (last'.result <=> Occupied # {})]_vars

\* C17 amended: when assign_program(address, entry) returns, it returns true
\* exactly if a version with the same key was present that the entry may not
\* replace, and then the versions of the address are as before and replacements
\* has grown by one; it returns false if the key was vacant and the entry was
\* inserted, and also if the entry has replaced the version of its key (a
\* builtin a builtin, a loaded program a closed or unloaded one), whose usage
\* counters are added to those of the entry.
C17_AssignReturnsRefused ==
    [][Assigns =>
        LET before == slot_versions_of(program_cache, "A")
            after == slot_versions_of(program_cache', "A")
            entry == last'.arg[1]
            refused == \E i \in Occupied :
                          ~(\/ before[i].program = "Builtin" /\ entry.program = "Builtin"
                            \/ /\ before[i].program \in {"Closed", "Unloaded"}
                               /\ entry.program \in {"LegacyV0", "LegacyV1", "Typed"})
        IN  /\ last'.result <=> refused
            /\ last'.result =>
                 /\ after = before
                 /\ program_cache'.stats.replacements
                       = (program_cache.stats.replacements + 1) % Pow2(StatBits)
            /\ (~last'.result /\ Occupied = {}) =>
                 /\ Len(after) = Len(before) + 1
                 /\ \E i \in DOMAIN after : after[i] = entry
            /\ (~last'.result /\ Occupied # {}) =>
                 /\ Len(after) = Len(before)
                 /\ \A i \in Occupied :
                      after[i] = [entry EXCEPT
                                    !.tx_usage_counter = @ + before[i].tx_usage_counter,
                                    !.ix_usage_counter = @ + before[i].ix_usage_counter]
                 /\ \A i \in DOMAIN before \ Occupied : after[i] = before[i]]_vars

\* assign_program has returned true because the key of its entry was taken.
C17_Witness ==
    /\ last.op = "assign_program"
    /\ last.result
    /\ program_cache.stats.replacements = 1
    /\ \E i \in DOMAIN slot_versions_of(program_cache, "A") :
         /\ SameKey(slot_versions_of(program_cache, "A")[i], last.arg[1])
         /\ slot_versions_of(program_cache, "A")[i].program # last.arg[1].program

\* ------------------------------------------------------ what a load publishes
\* Worker w returns now from the load of a program that fails verification.
FailsVerification(w) ==
    /\ pc[w] = "loading"
    /\ pc'[w] = "lock"
    /\ last'.arg # None
    /\ last'.arg[1].kind # "InvalidAccountData"
    /\ ~last'.arg[1].verifies

\* The environment the load of worker w uses for the account it has read.
EnvironmentInUse(w) ==
    IF last'.arg[1].kind = "ProgramOfLoaderV4"
    THEN get_environments_for_epoch(program_cache, processor[w].epoch).program_runtime_v2
    ELSE get_environments_for_epoch(program_cache, processor[w].epoch).program_runtime_v1

\* C19 as stated: when loading an assigned program fails verification under the
\* environment in use, the entry the worker publishes is a FailedVerification
\* tombstone carrying that environment, with deployment_slot = effective_slot =
\* the slot of the loading batch.
C19_FailedVerificationAtBatchSlot ==
    [][\A w \in Workers :
          FailsVerification(w) =>
             /\ program_to_store'[w][1].program.program = "FailedVerification"
             /\ program_to_store'[w][1].program.env = EnvironmentInUse(w)
             /\ program_to_store'[w][1].program.deployment_slot = processor[w].slot
             /\ program_to_store'[w][1].program.effective_slot = processor[w].slot]_vars

\* C19 amended: the entry is a FailedVerification tombstone carrying the
\* environment in use, with deployment_slot = the deployment slot recorded in
\* the program account (0 for a program of loader v1 or v2) and effective_slot
\* equal to it, raised to the first slot of the batch's epoch when the
\* environments in use are the upcoming ones.
C19_FailedVerificationAtDeployment ==
    [][\A w \in Workers :
          FailsVerification(w) =>
             /\ program_to_store'[w][1].program.program = "FailedVerification"
             /\ program_to_store'[w][1].program.env = EnvironmentInUse(w)
             /\ program_to_store'[w][1].program.deployment_slot = last'.arg[1].slot
             /\ program_to_store'[w][1].program.effective_slot =
                  IF /\ processor[w].epoch # program_cache.latest_root_epoch
                     /\ program_cache.upcoming_environments # None
                  THEN Max(last'.arg[1].slot, processor[w].epoch * SlotsPerEpoch)
                  ELSE last'.arg[1].slot]_vars

\* A worker of the batch at slot 3 is about to publish the tombstone of a
\* program deployed at slot 1 that has failed verification under the upcoming
\* environments.
C19_Witness ==
    /\ last.op = "load_program_with_pubkey"
    /\ last.arg # None
    /\ last.arg[1].kind = "ProgramOfLoaderV3"
    /\ ~last.arg[1].verifies
    /\ \E w \in Workers :
         /\ processor[w].slot = MaxSlot
         /\ program_to_store[w] # None
         /\ program_to_store[w][1].program.program = "FailedVerification"
         /\ program_to_store[w][1].program.env = "env1"
         /\ program_to_store[w][1].program.deployment_slot = 1
         /\ program_to_store[w][1].program.effective_slot = 2

\* C20: every LoadedProgram that is stored in the cache or in a batch view, or
\* is on its way into them, has effective_slot >= deployment_slot.
C20_EffectiveNotBeforeDeployment ==
    /\ \A key \in DOMAIN program_cache.entries :
         \A i \in DOMAIN program_cache.entries[key].slot_versions :
            program_cache.entries[key].slot_versions[i].effective_slot
               >= program_cache.entries[key].slot_versions[i].deployment_slot
    /\ \A w \in Workers :
         /\ loaded_programs_for_txs[w] # None =>
              \A key \in DOMAIN loaded_programs_for_txs[w][1].entries :
                 loaded_programs_for_txs[w][1].entries[key].effective_slot
                    >= loaded_programs_for_txs[w][1].entries[key].deployment_slot
         /\ program_to_store[w] # None =>
              program_to_store[w][1].program.effective_slot
                 >= program_to_store[w][1].program.deployment_slot

\* The cache holds a loaded program whose effective_slot was raised to the
\* epoch boundary, and a view holds a tombstone.
C20_Witness ==
    /\ \E key \in DOMAIN program_cache.entries :
         \E i \in DOMAIN program_cache.entries[key].slot_versions :
            LET v == program_cache.entries[key].slot_versions[i]
            IN  /\ v.program \in {"LegacyV1", "Typed"}
                /\ v.effective_slot > v.deployment_slot + DELAY_VISIBILITY_SLOT_OFFSET
    /\ \E w \in Workers :
         /\ loaded_programs_for_txs[w] # None
         /\ \E key \in DOMAIN loaded_programs_for_txs[w][1].entries :
               is_tombstone(loaded_programs_for_txs[w][1].entries[key])

\* ================================================================== extract
\* extract returns now.
ExtractReturns == last'.op = "extract" /\ ops' = ops + 1

\* extract has put a cached version of the address of the item into the view
\* (the DelayVisibility tombstone of the view is made by extract, not cached).
HitFor(item) ==
    /\ item.key \in DOMAIN main'.batch.entries
    /\ main'.batch.entries[item.key].program # "DelayVisibility"

\* C21: a hit in extract at batch slot s for a search item with usage count c
\* adds exactly c to the tx_usage_counter of the cached version and sets its
\* latest_access_slot to max(previous value, s); the latest_access_slot of a
\* version never decreases under extract calls at arbitrary slots.
C21_HitCountsUsage ==
    [][ExtractReturns =>
         /\ \A n \in DOMAIN last'.arg[1] :
              LET item == last'.arg[1][n]
                  before == slot_versions_of(program_cache, item.key)
                  after == slot_versions_of(program_cache', item.key)
              IN  HitFor(item) =>
                    \E i \in DOMAIN before :
                       /\ after = [before EXCEPT ![i] =
                                     [@ EXCEPT !.tx_usage_counter = @ + item.usage_count,
                                               !.latest_access_slot = Max(@, last'.slot)]]
                       /\ main'.batch.entries[item.key] = after[i]
         /\ \A key \in DOMAIN program_cache.entries :
              /\ Len(slot_versions_of(program_cache', key))
                    = Len(program_cache.entries[key].slot_versions)
              /\ \A i \in DOMAIN program_cache.entries[key].slot_versions :
                    slot_versions_of(program_cache', key)[i].latest_access_slot
                       >= program_cache.entries[key].slot_versions[i].latest_access_slot]_vars

\* A batch at slot 2 has hit, with an item used twice, a version that a batch at
\* the tip had hit before: the version keeps the access slot of the tip.
C21_Witness ==
    /\ last.op = "extract"
    /\ last.prev = "extract"
    /\ last.slot = 2
    /\ "A" \in DOMAIN main.batch.entries
    /\ main.batch.entries["A"].program = "LegacyV1"
    /\ main.batch.entries["A"].latest_access_slot = MaxSlot
    /\ main.batch.entries["A"].tx_usage_counter >= 3
    /\ \E i \in DOMAIN slot_versions_of(program_cache, "A") :
          slot_versions_of(program_cache, "A")[i] = main.batch.entries["A"]

\* ==================================================================== waiter
\* notify returns now.
NotifyReturns ==
    /\ last'.op = "notify"
    /\ <<last, loading_task_waiter>>' # <<last, loading_task_waiter>>

\* C22: the cookie wraps.  A notify at the largest cookie makes it 0, and a
\* worker in wait(largest) can return then; for every cookie c, wait(c) can
\* return exactly when the current cookie differs from c (at once when it
\* differs already at the call), and returns only then.
C22_CookieWrap ==
    [][/\ \A w \in Workers :
            pc[w] = "wait" =>
               /\ (ENABLED Wait(w)) <=> loading_task_waiter # task_cookie[w]
               /\ pc'[w] # "wait" => loading_task_waiter # task_cookie[w]
       /\ NotifyReturns =>
            /\ loading_task_waiter = CookieModulus - 1 => loading_task_waiter' = 0
            /\ \A w \in Workers :
                  (pc[w] = "wait" /\ task_cookie[w] = loading_task_waiter)
                     => loading_task_waiter' # task_cookie'[w]]_vars

\* A worker waits on the largest cookie and the cookie has wrapped to 0.
C22_Witness ==
    \E w \in Workers :
       /\ pc[w] = "wait"
       /\ task_cookie[w] = CookieModulus - 1
       /\ loading_task_waiter = 0

\* ============================================================ decayed counter
\* value >> by, one bit at a time
RECURSIVE Halved(_, _)
Halved(value, by) == IF by = 0 \/ value = 0 THEN value ELSE Halved(value \div 2, by - 1)

\* The shift amount of a decay: now - latest_access_slot, 0 when now is the
\* smaller one, and at most 63.
DecayShift(now, latest_access_slot) ==
    IF now < latest_access_slot THEN 0
    ELSE IF now - latest_access_slot > 63 THEN 63
    ELSE now - latest_access_slot

\* C23: decayed_usage_counter(now) equals tx_usage_counter shifted right by
\* min(63, now - latest_access_slot), the difference saturating at 0 when now <
\* latest_access_slot: the shift amount is within 0..63 and the result never
\* exceeds tx_usage_counter.
C23_DecayedUsageCounter ==
    last.op = "decayed_usage_counter" =>
        LET entry == program_cache.entries["A"].slot_versions[1]
            shift == DecayShift(last.slot, entry.latest_access_slot)
        IN  /\ shift \in 0..63
            /\ last.arg[1] = Halved(entry.tx_usage_counter, shift)
            /\ last.arg[1] <= entry.tx_usage_counter
            /\ last.arg[1] >= 0

\* The counter of a program accessed at slot 0 was decayed at slot 64, one slot
\* beyond the largest shift.
C23_Witness ==
    /\ last.op = "decayed_usage_counter"
    /\ last.slot = 64
    /\ program_cache.entries["A"].slot_versions[1].latest_access_slot = 0
    /\ program_cache.entries["A"].slot_versions[1].tx_usage_counter > 0
    /\ last.arg[1] = 0

\* ============================================================ the task of extract
\* The cooperative_loading_lock of an address, none without SecondLevel.
LockOf(cache, key) ==
    IF key \in DOMAIN cache.entries
    THEN cache.entries[key].cooperative_loading_lock
    ELSE NoLock

\* The positions of the search list whose address extract has not resolved.
Unresolved ==
    {n \in DOMAIN last'.arg[1] :
        ~(last'.arg[1][n].key \in DOMAIN main'.batch.entries)}

\* The unresolved positions whose address nobody was loading at the call.
Unclaimed == {n \in Unresolved : LockOf(program_cache, last'.arg[1][n].key) = NoLock}

\* C24: each extract call claims at most one cooperative-loading lock and
\* returns it as its task: the claimed address is the first one in the order of
\* search_for that is unresolved and whose lock is empty, its lock becomes
\* (batch slot, caller), and extract returns None with misses remaining only if
\* the lock of every remaining address is held.
C24_OneTaskPerExtract ==
    [][ExtractReturns =>
         LET search_for == last'.arg[1]
         IN  /\ main'.search_for = SelectSeq(search_for,
                    LAMBDA item : ~(item.key \in DOMAIN main'.batch.entries))
             /\ Cardinality({key \in Addrs :
                    LockOf(program_cache', key) # LockOf(program_cache, key)}) <= 1
             /\ IF Unclaimed = {}
                THEN /\ main'.task = None
                     /\ \A key \in Addrs :
                           LockOf(program_cache', key) = LockOf(program_cache, key)
                ELSE LET first == CHOOSE n \in Unclaimed : \A m \in Unclaimed : n <= m
                     IN  /\ main'.task = Some([key |-> search_for[first].key,
                                               usage_count |-> search_for[first].usage_count])
                         /\ LockOf(program_cache', search_for[first].key)
                               = Some([slot |-> last'.slot, thread |-> MainThread])
                         /\ \A key \in Addrs \ {search_for[first].key} :
                               LockOf(program_cache', key) = LockOf(program_cache, key)
             /\ (main'.task = None /\ main'.search_for # <<>>) =>
                   \A n \in DOMAIN main'.search_for :
                      LockOf(program_cache, main'.search_for[n].key) # NoLock]_vars

\* extract has passed over A, which another batch is loading, and has claimed B,
\* the second address of its list.
C24_Witness ==
    /\ last.op = "extract"
    /\ Len(main.search_for) = 2
    /\ main.search_for[1].key = "A"
    /\ main.task # None
    /\ main.task[1].key = "B"
    /\ LockOf(program_cache, "A") # NoLock
    /\ LockOf(program_cache, "A")[1].slot # last.slot

\* ============================================================ finishing a task
\* finish_cooperative_loading_task returns now.
FinishReturns == last'.op = "finish_cooperative_loading_task" /\ ops' = ops + 1

\* The entry is not visible from the batch that finishes its load.
LostInsertion(entry, slot) ==
    /\ entry.deployment_slot > program_cache.latest_root_slot
    /\ relationship(fork_graph[1], entry.deployment_slot, slot)
          \notin {"Equal", "Ancestor"}

\* C25: finish_cooperative_loading_task always clears the cooperative-loading
\* lock of the address, publishes the entry with assign_program, advances the
\* cookie of the waiter and returns the result of assign_program; so it does
\* when the entry is not visible from the finishing batch, where the only
\* difference is that lost_insertions grows by one.
C25_FinishPublishes ==
    [][FinishReturns =>
         LET assigned == assign_program(program_cache, last'.key, last'.arg[1])
         IN  /\ LockOf(program_cache', last'.key) = NoLock
             /\ \A key \in Addrs \ {last'.key} :
                   LockOf(program_cache', key) = LockOf(program_cache, key)
             /\ \A key \in Addrs :
                   slot_versions_of(program_cache', key)
                      = slot_versions_of(assigned.cache, key)
             /\ last'.result = assigned.result
             /\ loading_task_waiter' = (loading_task_waiter + 1) % CookieModulus
             /\ program_cache'.stats =
                   [assigned.cache.stats EXCEPT !.lost_insertions =
                       IF LostInsertion(last'.arg[1], last'.slot)
                       THEN (@ + 1) % Pow2(StatBits) ELSE @]
             /\ program_cache'.latest_root_slot = program_cache.latest_root_slot
             /\ program_cache'.latest_root_epoch = program_cache.latest_root_epoch
             /\ program_cache'.environments = program_cache.environments
             /\ program_cache'.upcoming_environments
                   = program_cache.upcoming_environments]_vars

\* A batch at the tip has published a program deployed at a slot whose relation
\* to the tip the fork graph does not know: the insertion is counted as lost and
\* the program is in the cache.
C25_Witness ==
    /\ last.op = "finish_cooperative_loading_task"
    /\ ~last.result
    /\ program_cache.stats.lost_insertions = 1
    /\ loading_task_waiter = 1
    /\ LockOf(program_cache, last.key) = NoLock
    /\ \E i \in DOMAIN slot_versions_of(program_cache, last.key) :
          slot_versions_of(program_cache, last.key)[i] = last.arg[1]

\* ========================================================= locked second levels
\* An operation called from outside the loop returns now.
OutsideReturns == ops' = ops + 1

\* C26: a SecondLevel is removed from the cache only when it has no versions and
\* no cooperative-loading lock: no operation called from outside the loop (prune,
\* remove_programs, ...) removes a SecondLevel, or clears its lock, while a
\* worker still holds that lock.
C26_LockedSecondLevelKept ==
    [][OutsideReturns =>
         \A key \in Addrs :
            (\E w \in Workers : Loading(w, key) /\ LockOf(program_cache, key) # NoLock)
               => /\ key \in DOMAIN program_cache'.entries
                  /\ LockOf(program_cache', key) = LockOf(program_cache, key)]_vars

EffectiveFor(entry, batch) ==
    /\ batch.slot >= entry.effective_slot
    /\ \/ entry.program \in {"Builtin", "Closed", "DelayVisibility"}
       \/ entry.env = batch.environments.program_runtime_v1
       \/ entry.env = batch.environments.program_runtime_v2

\* The version is deployed but not visible yet at the slot of the batch.
DelayedFor(entry, batch) ==
    /\ entry.program # "Builtin"
    /\ entry.effective_slot = entry.deployment_slot + DELAY_VISIBILITY_SLOT_OFFSET
    /\ entry.deployment_slot <= batch.slot
    /\ batch.slot < entry.effective_slot

\* The positions of the versions of key on which extract for the batch that is
\* returned now can decide.
Qualifying(key) ==
    {i \in VisiblePositions(key, last'.slot) :
        \/ EffectiveFor(slot_versions_of(program_cache, key)[i], main'.batch)
        \/ DelayedFor(slot_versions_of(program_cache, key)[i], main'.batch)}

\* C28: for each search address extract examines the versions from the newest
\* to the oldest and decides on the first one that is visible on the fork of the
\* batch and is either effective at the batch slot with an environment of the
\* batch, or an implicit delay-visibility tombstone for the batch slot; a
\* visible version that is neither is skipped, and an older version is never
\* returned when a newer one qualifies.
C28_NewestQualifying ==
    [][ExtractReturns =>
         \A n \in DOMAIN last'.arg[1] :
            \E item \in {last'.arg[1][n]}, view \in {main'.batch.entries} :
            \E qualifying \in {Qualifying(item.key)} :
               IF qualifying = {}
               THEN ~(item.key \in DOMAIN view)
               ELSE \E newest \in {i \in qualifying : \A j \in qualifying : j <= i} :
                    \E version \in {slot_versions_of(program_cache, item.key)[newest]} :
                       IF EffectiveFor(version, main'.batch)
                       THEN /\ item.key \in DOMAIN view =>
                                 view[item.key]
                                    = slot_versions_of(program_cache', item.key)[newest]
                            /\ (/\ version.program # "Unloaded"
                                /\ \/ item.criteria.kind = "NoCriteria"
                                   \/ /\ item.criteria.kind = "Tombstone"
                                      /\ version.program \in {"FailedVerification", "Closed"}
                                   \/ /\ item.criteria.kind = "DeployedOnOrAfterSlot"
                                      /\ version.deployment_slot >= item.criteria.slot)
                                  => item.key \in DOMAIN view
                       ELSE /\ item.key \in DOMAIN view
                            /\ view[item.key].program = "DelayVisibility"
                            /\ view[item.key].deployment_slot = version.deployment_slot]_vars

\* A batch at slot 1 has skipped the newest version of A, visible but effective
\* only from the next epoch, and has taken the older one.
C28_Witness ==
    /\ last.op = "extract"
    /\ last.slot = 1
    /\ "A" \in DOMAIN main.batch.entries
    /\ main.batch.entries["A"].program = "LegacyV1"
    /\ main.batch.entries["A"].effective_slot = 0
    /\ \E i \in DOMAIN slot_versions_of(program_cache, "A") :
          /\ slot_versions_of(program_cache, "A")[i].deployment_slot = 0
          /\ slot_versions_of(program_cache, "A")[i].effective_slot > 1

\* ============================================================ unloaded versions
\* C29: extract never places an Unloaded version into a batch view: when the
\* version selected for an address is visible, effective and of a matching
\* environment but its payload is Unloaded, the address stays a miss and goes to
\* the cooperative-loading path (it is retained, and it is the task unless
\* another address was claimed or it is being loaded already), and the counters
\* of the Unloaded version are not changed by that extract.
C29_UnloadedIsMiss ==
    [][ExtractReturns =>
         /\ \A key \in DOMAIN main'.batch.entries :
               main'.batch.entries[key].program # "Unloaded"
         /\ \A n \in DOMAIN last'.arg[1] :
             \E item \in {last'.arg[1][n]} :
             \E qualifying \in {Qualifying(item.key)} :
             \A newest \in {i \in qualifying : \A j \in qualifying : j <= i} :
                (/\ slot_versions_of(program_cache, item.key)[newest].program = "Unloaded"
                 /\ EffectiveFor(slot_versions_of(program_cache, item.key)[newest],
                                 main'.batch))
                => /\ ~(item.key \in DOMAIN main'.batch.entries)
                   /\ \E m \in DOMAIN main'.search_for : main'.search_for[m] = item
                   /\ \/ main'.task = Some([key |-> item.key,
                                            usage_count |-> item.usage_count])
                      \/ main'.task # None /\ main'.task[1].key # item.key
                      \/ LockOf(program_cache, item.key) # NoLock
                   /\ slot_versions_of(program_cache', item.key)
                         = slot_versions_of(program_cache, item.key)]_vars

\* A batch had used a program, the program was unloaded, and the next batch
\* that asks for it is given the address as its task: the usage counted before
\* is still with the Unloaded version.
C29_Witness ==
    /\ last.op = "extract"
    /\ last.prev = "sort_and_unload"
    /\ main.task # None
    /\ main.task[1].key = "A"
    /\ ~("A" \in DOMAIN main.batch.entries)
    /\ \E i \in DOMAIN slot_versions_of(program_cache, "A") :
          /\ slot_versions_of(program_cache, "A")[i].program = "Unloaded"
          /\ slot_versions_of(program_cache, "A")[i].tx_usage_counter > 0
          /\ slot_versions_of(program_cache, "A")[i].effective_slot <= last.slot

\* ============================================================== match criteria
\* The version satisfies the criteria of the search item.
Accepts(criteria, version) ==
    \/ criteria.kind = "NoCriteria"
    \/ /\ criteria.kind = "Tombstone"
       /\ version.program \in {"FailedVerification", "Closed", "DelayVisibility"}
    \/ /\ criteria.kind = "DeployedOnOrAfterSlot"
       /\ version.deployment_slot >= criteria.slot

\* C30: extract accepts a visible, effective candidate of a matching
\* environment only if it satisfies the match criteria of the search item:
\* NoCriteria accepts any candidate, Tombstone only tombstones,
\* DeployedOnOrAfterSlot(s) only candidates with deployment_slot >= s; a
\* candidate that fails the criteria is not put into the batch view and the
\* address becomes a miss.
C30_MatchCriteria ==
    [][ExtractReturns =>
         \A n \in DOMAIN last'.arg[1] :
            \E item \in {last'.arg[1][n]} :
            \E qualifying \in {Qualifying(item.key)} :
            \A newest \in {i \in qualifying : \A j \in qualifying : j <= i} :
            \E candidate \in {slot_versions_of(program_cache, item.key)[newest]} :
               EffectiveFor(candidate, main'.batch) =>
                  /\ item.key \in DOMAIN main'.batch.entries
                        => Accepts(item.criteria, candidate)
                  /\ (candidate.program # "Unloaded" /\ Accepts(item.criteria, candidate))
                        => /\ item.key \in DOMAIN main'.batch.entries
                           /\ SameKey(main'.batch.entries[item.key], candidate)
                           /\ main'.batch.entries[item.key].program = candidate.program
                  /\ ~Accepts(item.criteria, candidate)
                        => /\ ~(item.key \in DOMAIN main'.batch.entries)
                           /\ \E m \in DOMAIN main'.search_for :
                                 main'.search_for[m] = item
                           /\ slot_versions_of(program_cache', item.key)
                                 = slot_versions_of(program_cache, item.key)]_vars

\* A batch at slot 2 that asks for A deployed at slot 2 or later finds the
\* program deployed at slot 1, effective since slot 2: A is a miss and becomes
\* the task of the batch.
C30_Witness ==
    /\ last.op = "extract"
    /\ last.slot = 2
    /\ last.arg[1][1].key = "A"
    /\ last.arg[1][1].criteria = DeployedOnOrAfterSlot(2)
    /\ slot_versions_of(program_cache, "A")
          = <<LoadedProgram("LegacyV1", "env0", 1, 1, 2)>>
    /\ ~("A" \in DOMAIN main.batch.entries)
    /\ main.task # None
    /\ main.task[1].key = "A"

\* ====================================================== versions below the root
\* prune returns now, and it was not the end of a recompilation phase.
PrunesWithinPhase ==
    /\ last'.op = "prune"
    /\ ops' = ops + 1
    /\ ~(/\ last'.epoch # program_cache.latest_root_epoch
         /\ program_cache.upcoming_environments # None)

\* The positions of the versions of key deployed below the new root that are on
\* the chain of the new root: an Ancestor of it, or deployed at or below the old
\* root.
OnRootChain(key, new_root_slot) ==
    {i \in DOMAIN slot_versions_of(program_cache, key) :
        LET e == slot_versions_of(program_cache, key)[i]
        IN  /\ e.deployment_slot < new_root_slot
            /\ \/ relationship(fork_graph[1], e.deployment_slot, new_root_slot) = "Ancestor"
               \/ e.deployment_slot <= program_cache.latest_root_slot}

\* C31: after prune(new_root, epoch) that does not end a recompilation phase,
\* for every address the newest version with deployment_slot < new_root that is
\* an Ancestor of new_root or has deployment_slot <= the old root is retained;
\* an older such version is retained only if it carries an environment that
\* differs from the environment the newest one carries; all other versions with
\* deployment_slot < new_root are removed.
C31_NewestBelowRoot ==
    [][PrunesWithinPhase =>
         \A key \in Addrs :
            \E before \in {slot_versions_of(program_cache, key)},
               chain \in {OnRootChain(key, last'.slot)} :
               SelectSeq(slot_versions_of(program_cache', key),
                         LAMBDA e : e.deployment_slot < last'.slot)
               = IF chain = {} THEN <<>>
                 ELSE LET newest == before[CHOOSE i \in chain : \A j \in chain : j <= i]
                      IN  SelectSeq(before,
                             LAMBDA e :
                                \E i \in chain :
                                   /\ before[i] = e
                                   /\ \/ e = newest
                                      \/ /\ CarriesEnvironment(e.program)
                                         /\ CarriesEnvironment(newest.program)
                                         /\ e.env # newest.env)]_vars

\* prune has kept, below the new root, the newest version of A and an older one
\* of another environment, and has removed a version as an orphan.
C31_Witness ==
    /\ last.op = "prune"
    /\ program_cache.upcoming_environments = None
    /\ program_cache.environments = DefaultEnvironments
    /\ program_cache.stats.prunes_orphan > 0
    /\ Len(slot_versions_of(program_cache, "A")) = 2
    /\ \A i \in DOMAIN slot_versions_of(program_cache, "A") :
          slot_versions_of(program_cache, "A")[i].deployment_slot < last.slot
    /\ slot_versions_of(program_cache, "A")[1].env
          # slot_versions_of(program_cache, "A")[2].env

\* ====================================================== rerooting in an epoch
\* prune returns now.
PruneReturns == last'.op = "prune" /\ ops' = ops + 1

\* The number of versions of all addresses in a cache.
VersionCount(cache) ==
    Len(slot_versions_of(cache, "A")) + Len(slot_versions_of(cache, "B"))

\* The number of versions deployed at or above the new root on a slot that is
\* neither the new root nor a descendant of it: prune removes them uncounted.
OffRoot(new_root_slot) ==
    Cardinality({<<key, i>> \in Addrs \X (1..MaxVersions) :
        /\ i \in DOMAIN slot_versions_of(program_cache, key)
        /\ slot_versions_of(program_cache, key)[i].deployment_slot >= new_root_slot
        /\ relationship(fork_graph[1],
                        slot_versions_of(program_cache, key)[i].deployment_slot,
                        new_root_slot) \notin {"Equal", "Descendant"}})

\* C32: prune with new_root_epoch equal to latest_root_epoch leaves
\* environments, upcoming_environments and programs_to_recompile unchanged and
\* removes no version because of an environment mismatch (every version it
\* removes is removed by the fork rule), even while upcoming_environments is
\* installed; the environments change and versions are removed for their
\* environment only in a prune whose epoch differs from latest_root_epoch.
C32_SameEpochPrune ==
    [][PruneReturns =>
         /\ last'.epoch = program_cache.latest_root_epoch =>
               /\ program_cache'.environments = program_cache.environments
               /\ program_cache'.upcoming_environments
                     = program_cache.upcoming_environments
               /\ program_cache'.programs_to_recompile
                     = program_cache.programs_to_recompile
               /\ program_cache'.stats.prunes_environment
                     = program_cache.stats.prunes_environment
               /\ VersionCount(program_cache) - VersionCount(program_cache')
                     = OffRoot(last'.slot)
                       + ((program_cache'.stats.prunes_orphan + Pow2(StatBits)
                             - program_cache.stats.prunes_orphan) % Pow2(StatBits))
         /\ (\/ program_cache'.environments # program_cache.environments
             \/ program_cache'.upcoming_environments # program_cache.upcoming_environments
             \/ program_cache'.programs_to_recompile # program_cache.programs_to_recompile
             \/ program_cache'.stats.prunes_environment
                   # program_cache.stats.prunes_environment)
               => last'.epoch # program_cache.latest_root_epoch]_vars

\* The root has moved within the epoch while upcoming_environments was
\* installed: a version of the upcoming environments and the list of programs
\* to recompile are still there, and an orphan was removed.
C32_Witness ==
    /\ last.op = "prune"
    /\ last.epoch = 0
    /\ program_cache.latest_root_slot > 0
    /\ program_cache.upcoming_environments # None
    /\ program_cache.programs_to_recompile # <<>>
    /\ program_cache.stats.prunes_orphan > 0
    /\ \E i \in DOMAIN slot_versions_of(program_cache, "A") :
          slot_versions_of(program_cache, "A")[i].env
             = NextEnvironments.program_runtime_v1

\* ======================================================= counters of a version
\* C33: usage counters survive eviction and reload.  In any sequence of
\* evictions and reloads of one version (an Unloaded version replaced at the
\* same key by a compiled entry), the tx_usage_counter and ix_usage_counter of
\* the version never decrease: an eviction copies them, and a reload adds the
\* counters of the stored version to those of the incoming entry.
C33_CountersSurvive ==
    [][\A key \in Addrs :
          \A i \in DOMAIN slot_versions_of(program_cache, key) :
          \A j \in DOMAIN slot_versions_of(program_cache', key) :
          \E stored \in {slot_versions_of(program_cache, key)[i]},
             next \in {slot_versions_of(program_cache', key)[j]} :
             SameKey(stored, next) =>
                /\ next.tx_usage_counter >= stored.tx_usage_counter
                /\ next.ix_usage_counter >= stored.ix_usage_counter
                /\ (stored.program # "Unloaded" /\ next.program = "Unloaded") =>
                      /\ next.tx_usage_counter = stored.tx_usage_counter
                      /\ next.ix_usage_counter = stored.ix_usage_counter
                /\ (stored.program = "Unloaded" /\ next.program # "Unloaded") =>
                      /\ next.tx_usage_counter
                            = stored.tx_usage_counter + last'.arg[1].tx_usage_counter
                      /\ next.ix_usage_counter
                            = stored.ix_usage_counter + last'.arg[1].ix_usage_counter]_vars

\* A program that was used has been evicted and reloaded: the compiled version
\* in the cache has the usage of before and that of the entry that replaced it.
C33_Witness ==
    /\ last.op = "assign_program"
    /\ last.prev \in {"evict_using_2s_random_selection", "sort_and_unload"}
    /\ ~last.result
    /\ \E i \in DOMAIN slot_versions_of(program_cache, last.key) :
          /\ SameKey(slot_versions_of(program_cache, last.key)[i], last.arg[1])
          /\ slot_versions_of(program_cache, last.key)[i].program
                \in {"LegacyV1", "Typed"}
          /\ slot_versions_of(program_cache, last.key)[i].tx_usage_counter
                > last.arg[1].tx_usage_counter
          /\ slot_versions_of(program_cache, last.key)[i].ix_usage_counter
                > last.arg[1].ix_usage_counter

\* ------------------------------------------------- the rounds of an eviction
\* The version a candidate of the eviction stands for.
VersionAt(cache, cand) == cache.entries[cand.key].slot_versions[cand.index]

\* C34: evict_using_2s_random_selection performs exactly
\* max(0, candidates - pct% of MAX_LOADED_ENTRY_COUNT) rounds; in each round
\* exactly one of the two sampled candidates is unloaded and removed from the
\* candidate list: the first if its decayed_usage_counter(now) is strictly lower
\* than that of the second, otherwise (higher or equal, including when both
\* samples are the same candidate) the second.
C34_Rounds ==
    [][(last'.op = "evict_using_2s_random_selection" /\ ops' = ops + 1) =>
        \E rounds \in {last'.arg[1].rounds},
           candidates \in {get_flattened_entries(program_cache, TRUE, TRUE)} :
           /\ Len(rounds)
                = Max(0, Cardinality(candidates)
                           - ((last'.arg[1].shrink_to * MAX_LOADED_ENTRY_COUNT) \div 100))
           /\ \A r \in DOMAIN rounds :
                /\ {rounds[r].first, rounds[r].second}
                      \subseteq candidates \ {rounds[q].removed : q \in 1..(r - 1)}
                /\ rounds[r].removed
                      = IF decayed_usage_counter(VersionAt(program_cache, rounds[r].first),
                                                 last'.slot)
                           < decayed_usage_counter(VersionAt(program_cache, rounds[r].second),
                                                   last'.slot)
                        THEN rounds[r].first
                        ELSE rounds[r].second
           /\ \A cand \in candidates :
                VersionAt(program_cache', cand).program = "Unloaded"
                   <=> \E r \in DOMAIN rounds : rounds[r].removed = cand]_vars

\* An eviction of several rounds has sampled one candidate twice in a round, has
\* removed the first of two candidates in another, and the second of two
\* candidates that were used equally in a third.
C34_Witness ==
    /\ last.op = "evict_using_2s_random_selection"
    /\ \E rounds \in {last.arg[1].rounds} :
         /\ Len(rounds) >= 3
         /\ \E r \in DOMAIN rounds : rounds[r].first = rounds[r].second
         /\ \E r \in DOMAIN rounds : /\ rounds[r].first # rounds[r].second
                                     /\ rounds[r].removed = rounds[r].first
         /\ \E r \in DOMAIN rounds :
              /\ rounds[r].first # rounds[r].second
              /\ rounds[r].removed = rounds[r].second
              /\ decayed_usage_counter(VersionAt(program_cache, rounds[r].first), last.slot)
                   = decayed_usage_counter(VersionAt(program_cache, rounds[r].second),
                                           last.slot)

\* ============================================ the transactions of a batch
\* The entry is one that a transaction of the batch of w left in
\* programs_modified_by_tx.
ModifiedEntry(w, entry) ==
    \E index \in 1..processor[w].sanitized_txs :
       \E modified \in ProgramsModifiedBy(processor[w].slot, index) :
          \E key \in DOMAIN modified : modified[key] = entry

\* C35: within a batch, the programs modified by a transaction are merged into
\* the batch view only if that transaction was executed with status Ok; program
\* modifications of a transaction that failed or was not executed are never
\* visible through the batch view to later transactions of the same batch.
C35_MergeOnlyOk ==
    [][\A w \in Workers :
         pc[w] \in {"done", "execute", "returned"} =>
            \E view \in {loaded_programs_for_txs[w][1]},
               next \in {loaded_programs_for_txs'[w][1]},
               results \in {processor'[w].execution_results} :
               /\ Len(results) = Len(processor[w].execution_results) + 1 =>
                    \E result \in {results[Len(results)]} :
                       next.entries =
                          IF result.kind = "Executed" /\ result.status = "Ok"
                          THEN [k \in DOMAIN view.entries
                                       \cup DOMAIN result.programs_modified_by_tx |->
                                  IF k \in DOMAIN result.programs_modified_by_tx
                                  THEN result.programs_modified_by_tx[k]
                                  ELSE view.entries[k]]
                          ELSE view.entries
               /\ Len(results) = Len(processor[w].execution_results) => next = view
               /\ \A key \in DOMAIN next.entries :
                    ModifiedEntry(w, next.entries[key]) =>
                       \E i \in DOMAIN results :
                          /\ results[i].kind = "Executed"
                          /\ results[i].status = "Ok"
                          /\ key \in DOMAIN results[i].programs_modified_by_tx
                          /\ results[i].programs_modified_by_tx[key] = next.entries[key]]_vars

\* A batch has returned: its first transaction deployed A and succeeded, its
\* second deployed A and failed, and the view has the program of the first.
C35_Witness ==
    /\ pc["w1"] = "returned"
    /\ \E results \in {processor["w1"].execution_results} :
         /\ Len(results) >= 2
         /\ results[1].kind = "Executed" /\ results[1].status = "Ok"
         /\ results[2].kind = "Executed" /\ results[2].status = "Err"
         /\ "A" \in DOMAIN results[1].programs_modified_by_tx
         /\ "A" \in DOMAIN results[2].programs_modified_by_tx
         /\ loaded_programs_for_txs["w1"][1].entries["A"]
               = results[1].programs_modified_by_tx["A"]

\* The publication of the program of worker w in its next pass of the loop
\* returns true.
PublicationFails(w) ==
    /\ pc[w] = "lock"
    /\ program_to_store[w] # None
    /\ finish_cooperative_loading_task(
          program_cache, loading_task_waiter, fork_graph[1], processor[w].slot,
          program_to_store[w][1].key, program_to_store[w][1].program).result

\* The worker holds the cooperative-loading lock of a program.
HoldsLock(cache, w) ==
    \E key \in DOMAIN cache.entries :
       /\ LockOf(cache, key) # NoLock
       /\ LockOf(cache, key)[1].thread = w

\* C36: if finish_cooperative_loading_task returns true while
\* limit_to_load_programs is set, the loading loop returns at once a batch view
\* with hit_max_limit = true, without extracting, claiming a lock or loading
\* anything further, and load_and_execute_sanitized_transactions then executes
\* no transaction and returns empty loaded_transactions and execution_results;
\* with limit_to_load_programs unset the loop continues.
C36_HitMaxLimit ==
    [][\A w \in Workers :
         /\ (PublicationFails(w) /\ pc'[w] # "lock") =>
              \E finished \in {finish_cooperative_loading_task(
                                  program_cache, loading_task_waiter, fork_graph[1],
                                  processor[w].slot, program_to_store[w][1].key,
                                  program_to_store[w][1].program)} :
                 IF processor[w].limit_to_load_programs
                 THEN /\ pc'[w] = "done"
                      /\ loaded_programs_for_txs'[w][1].hit_max_limit
                      /\ loaded_programs_for_txs'[w][1].entries = NoPrograms
                      /\ program_cache' = finished.cache
                      /\ ~HoldsLock(program_cache', w)
                      /\ missing_programs'[w] = missing_programs[w]
                      /\ program_to_store'[w] = None
                 ELSE \E extracted \in {extract(finished.cache, missing_programs[w],
                                                loaded_programs_for_txs[w][1],
                                                fork_graph[1], w)} :
                      /\ program_cache' = extracted.cache
                      /\ missing_programs'[w] = extracted.search_for
                      /\ program_to_load'[w] = extracted.task
                      /\ loaded_programs_for_txs'[w] = Some(extracted.batch)
                      /\ ~extracted.batch.hit_max_limit
         /\ (/\ pc[w] = "done"
             /\ loaded_programs_for_txs[w][1].hit_max_limit
             /\ pc'[w] # "done") =>
              /\ pc'[w] = "returned"
              /\ processor'[w].execution_results = <<>>
              /\ processor'[w].output = Some(Output(<<>>, <<>>))
              /\ program_cache' = program_cache
              /\ loaded_programs_for_txs' = loaded_programs_for_txs]_vars

\* A batch whose caller limits the loading has returned empty vectors, after
\* the publication of the program it loaded was refused.
C36_Witness ==
    /\ pc["w1"] = "returned"
    /\ processor["w1"].limit_to_load_programs
    /\ loaded_programs_for_txs["w1"][1].hit_max_limit
    /\ processor["w1"].output = Some(Output(<<>>, <<>>))
    /\ program_cache.stats.replacements > 0
    /\ pc["w2"] = "returned"
    /\ Len(processor["w2"].execution_results) = 1

\* ======================================================= the locks of a worker
\* The addresses whose cooperative-loading lock the cache records for worker w.
LocksOf(cache, w) ==
    {key \in DOMAIN cache.entries :
        /\ LockOf(cache, key) # NoLock
        /\ LockOf(cache, key)[1].thread = w}

\* C37: a worker running the loading loop holds at most one cooperative-loading
\* lock at any time, and holds none whenever replenish_program_cache returns
\* (normally or with hit_max_limit): every lock a worker claims in extract is
\* cleared by the finish_cooperative_loading_task of that worker on its next
\* pass of the loop, before it calls extract again.
C37_OneLockPerWorker ==
    [][\A w \in Workers :
         /\ Cardinality(LocksOf(program_cache', w)) <= 1
         /\ pc'[w] = "done" => LocksOf(program_cache', w) = {}
         /\ \A key \in LocksOf(program_cache', w) : Loading(w, key)'
         /\ (pc[w] = "lock" /\ pc'[w] # "lock") =>
              /\ program_to_store[w] # None =>
                   \E finished \in {finish_cooperative_loading_task(
                                       program_cache, loading_task_waiter, fork_graph[1],
                                       processor[w].slot, program_to_store[w][1].key,
                                       program_to_store[w][1].program)} :
                      /\ LocksOf(finished.cache, w) = {}
                      /\ LockOf(finished.cache, program_to_store[w][1].key) = NoLock
              /\ LocksOf(program_cache', w)
                    = IF pc'[w] = "load" THEN {program_to_load'[w][1].key} ELSE {}]_vars

\* A worker that needs two programs holds the lock of the second, after the
\* program it loaded first was published and its lock cleared.
C37_Witness ==
    /\ pc["w1"] = "load"
    /\ LocksOf(program_cache, "w1") = {"B"}
    /\ LockOf(program_cache, "A") = NoLock
    /\ "A" \in DOMAIN loaded_programs_for_txs["w1"][1].entries
    /\ loaded_programs_for_txs["w1"][1].entries["A"].program = "LegacyV1"
    /\ loaded_programs_for_txs["w1"][1].entries["A"].tx_usage_counter >= 2

\* ============================================ the environment of a load
\* C38: in every interleaving of the loading loop of a batch with prune
\* (including an epoch change) and with the installation of
\* upcoming_environments, the environment under which a worker loads its
\* assigned program is identical to program_runtime_v1 or program_runtime_v2 of
\* the environments stored in the batch view of that worker, so that the entry it
\* publishes is accepted by its own next extract.
C38_LoadEnvironmentOfView ==
    [][\A w \in Workers :
         (/\ pc[w] = "loading"
          /\ pc'[w] = "lock"
          /\ last'.arg # None
          /\ last'.arg[1].kind # "InvalidAccountData") =>
            \E view \in {loaded_programs_for_txs[w][1]},
               program \in {program_to_store'[w][1].program} :
               /\ EnvironmentInUse(w) \in {view.environments.program_runtime_v1,
                                           view.environments.program_runtime_v2}
               /\ matches_environment(program, view.environments)]_vars

\* ============================================ the usage a batch accounts for
\* The tx_usage_counter of the version of the address with the key of the entry,
\* zero when the cache has no such version.
UsageOf(cache, key, entry) ==
    IF \E i \in DOMAIN slot_versions_of(cache, key) :
          SameKey(slot_versions_of(cache, key)[i], entry)
    THEN LET i == CHOOSE i \in DOMAIN slot_versions_of(cache, key) :
                     SameKey(slot_versions_of(cache, key)[i], entry)
         IN  slot_versions_of(cache, key)[i].tx_usage_counter
    ELSE 0

\* C39: a batch that requests an address with usage count c raises the
\* tx_usage_counter of the version it ends up using by exactly c over the whole
\* loading loop, whether the version was already cached (a hit in the first
\* extract) or was loaded and published by the worker of this batch and then
\* found by its next extract.
C39_UsageCountedOnce ==
    [][\A w \in Workers :
         (pc[w] = "lock" /\ pc'[w] # "lock") =>
            \A n \in DOMAIN missing_programs[w] :
               \E item \in {missing_programs[w][n]},
                  view \in {loaded_programs_for_txs'[w][1]} :
                  (/\ item.key \in DOMAIN view.entries
                   /\ view.entries[item.key].program # "DelayVisibility") =>
                     UsageOf(program_cache', item.key, view.entries[item.key])
                        = UsageOf(program_cache, item.key, view.entries[item.key])
                             + item.usage_count]_vars

\* ============================================ what extract leaves behind
\* The version apart from what a use of it records: its tx_usage_counter and
\* the slot of its latest access.
ApartFromUsage(version) ==
    [version EXCEPT !.tx_usage_counter = 0, !.latest_access_slot = 0]

\* C40: extract partitions its search list and leaves cached versions alone.
\* After extract returns, every address that was in search_for before the call
\* is either in the batch view (and removed from search_for) or still in
\* search_for (and, unless it was already there, not in the batch view), no
\* address is dropped, and extract adds, removes or replaces no version in any
\* slot_versions of the global cache: it changes only cooperative-loading locks,
\* the record of usage of the versions and statistics.
C40_ExtractPartitions ==
    [][ExtractReturns =>
        \E search_for \in {last'.arg[1]}, view \in {main'.batch},
           remaining \in {main'.search_for} :
           /\ \A n \in DOMAIN search_for :
                \/ /\ search_for[n].key \in DOMAIN view.entries
                   /\ \A m \in DOMAIN remaining : remaining[m].key # search_for[n].key
                \/ /\ search_for[n].key \notin DOMAIN view.entries
                   /\ \E m \in DOMAIN remaining : remaining[m] = search_for[n]
           /\ remaining = SelectSeq(search_for,
                                    LAMBDA item : item.key \notin DOMAIN view.entries)
           /\ DOMAIN view.entries \subseteq {search_for[n].key : n \in DOMAIN search_for}
           /\ DOMAIN program_cache.entries \subseteq DOMAIN program_cache'.entries
           /\ \A key \in DOMAIN program_cache'.entries :
                \E before \in {slot_versions_of(program_cache, key)},
                   after \in {slot_versions_of(program_cache', key)} :
                   /\ Len(after) = Len(before)
                   /\ \A i \in DOMAIN before :
                        /\ ApartFromUsage(after[i]) = ApartFromUsage(before[i])
                        /\ after[i].tx_usage_counter >= before[i].tx_usage_counter
                        /\ after[i].latest_access_slot >= before[i].latest_access_slot
           /\ [program_cache' EXCEPT !.entries = NoEntries, !.stats = 0]
                 = [program_cache EXCEPT !.entries = NoEntries, !.stats = 0]]_vars

\* extract for A and B has put a version of A, one of several, into the view
\* and counted its usage, and has kept B, which it returns as the task.
C40_Witness ==
    /\ last.op = "extract"
    /\ Len(last.arg[1]) = 2
    /\ "A" \in DOMAIN main.batch.entries
    /\ main.batch.entries["A"].program = "LegacyV1"
    /\ main.batch.entries["A"].tx_usage_counter > 0
    /\ Len(slot_versions_of(program_cache, "A")) >= 2
    /\ Len(main.search_for) = 1
    /\ main.search_for[1].key = "B"
    /\ main.task # None
    /\ LockOf(program_cache, "B") # NoLock
    /\ slot_versions_of(program_cache, "B") = <<>>

====
